---- MODULE Spec2Model ----
(***************************************************************************)
(* Mind-map synchronisation core: the merge engine (services/merge.js),    *)
(* the vector clock comparison, and the live socket handlers               *)
(* (websocket/socketHandler.js) acting on the persisted nodes, edges, map  *)
(* record and operation log.                                               *)
(***************************************************************************)
EXTENDS Integers, Sequences, FiniteSets, TLC

\* ------------------------------------------------------------------ bounds
MaxSteps == 2
MaxLog == 10
MaxClock == 2
MaxEdits == 6

\* ------------------------------------------------------------ input domains
Clients == {"X", "Y"}
NodeIds == {"n1", "n2"}
Labels == {"A", "B"}
NoId == "none"
NoLabel == ""
NewNodeLabel == "New Node"

ClockValues == 0..1
VC == [Clients -> ClockValues]
ZeroVC == [u \in Clients |-> 0]

NodeOpTypes == {"addNode", "updateNode", "deleteNode", "moveNode", "NODE_UPDATE"}
EdgeOpTypes == {"addEdge", "deleteEdge"}

\* Operations a client may submit. Each field is drawn where the engine reads
\* it: the label by updateNode alone; the types no branch of the engine knows
\* are rejected whatever else they carry. Deletions and edge operations read
\* the clock at the map-level check only and carry one of two clocks.
SomeVC == {ZeroVC, [u \in Clients |-> IF u = "X" THEN 1 ELSE 0]}
NodeOps ==
  [type : {"updateNode"}, nodeId : NodeIds, label : Labels,
   from : {NoId}, to : {NoId}, vc : VC]
  \cup [type : {"addNode"}, nodeId : NodeIds, label : {NewNodeLabel},
        from : {NoId}, to : {NoId}, vc : SomeVC]
  \cup [type : {"deleteNode"}, nodeId : NodeIds, label : {NoLabel},
        from : {NoId}, to : {NoId}, vc : SomeVC]
  \cup [type : {"moveNode", "NODE_UPDATE"}, nodeId : {"n1"}, label : {NoLabel},
        from : {NoId}, to : {NoId}, vc : {ZeroVC}]
EdgeOps == [type : EdgeOpTypes, nodeId : {NoId}, label : {NoLabel},
            from : NodeIds, to : NodeIds, vc : SomeVC]
Ops == NodeOps \cup EdgeOps

Failures == {"none", "mapSave", "logAppend"}

VARIABLES
  nodes,    \* the Node collection: nodeId -> document
  edges,    \* the Edge collection, in insertion order (the index is the edgeId)
  map,      \* the Map document: vectorClock, version, stats
  opLog,    \* the Operation collection, in insertion order
  sequence, \* the last server sequence issued for the map
  last,     \* the last merge call: its operation, its answer, what it read
  steps,    \* merge calls made so far
  script,   \* a scenario's operations still to be submitted, in order
  calls,    \* a scenario's merge calls so far: operation and answer
  response, \* the answer to the last query or service call made
  procs,    \* the handler calls in flight, one per client: position and locals
  stores,   \* each client's store: its nodes, its edges, the ids it has generated
  toServer, \* per client, the events emitted and not yet handled by the server
  toClient,  \* per client, the events broadcast to it and not yet received
  socketMapId, \* socket.mapId of each connected session (join-map)
  rooms,    \* the map rooms each session has joined
  otherMap, \* the stored documents of a second map
  health    \* the HealthMonitor's fields and the database connection it watches

clientVars == <<stores, toServer, toClient>>

sessionVars == <<socketMapId, rooms, otherMap>>

vars == <<nodes, edges, map, opLog, sequence, last, steps, script, calls, response, procs, clientVars,
          sessionVars, health>>

\* ------------------------------------------------------------ helpers
Max(a, b) == IF a >= b THEN a ELSE b

AbsentNode == [present |-> FALSE, isDeleted |-> FALSE, label |-> NoLabel,
               vectorClock |-> ZeroVC, version |-> 0]

\* The record of the last merge call: what was asked, what was answered, and
\* the state the call read before it wrote.
NoOp == [type |-> "none", nodeId |-> NoId, label |-> NoLabel,
         from |-> NoId, to |-> NoId, vc |-> ZeroVC]

NoCall == [handler |-> "init", op |-> NoOp, valid |-> FALSE, reason |-> "",
           stage |-> "", mapVCBefore |-> ZeroVC, nodeBefore |-> AbsentNode]

\* String.prototype.includes on the operation type strings of the model.
NoMap == [vectorClock |-> ZeroVC, version |-> 0, stats |-> [nodeCount |-> 0, edgeCount |-> 0]]

NoProc ==
  [op |-> NoOp, pc |-> "idle", map |-> NoMap, node |-> AbsentNode,
   sourceExists |-> FALSE, entity |-> NoId, serverSequence |-> 0,
   valid |-> FALSE, reason |-> "", snapshot |-> [nodes |-> {}, edges |-> {}]]

NoResponse == [kind |-> "none"]

NoStoreNode == [present |-> FALSE, label |-> NoLabel]

NoStore == [nodes |-> [n \in NodeIds |-> NoStoreNode], edges |-> {}, created |-> 0]

MapIds == {"default_map", "m2"}

DEFAULT_MAP_ID == "default_map"

\* The documents of a map nobody has written to.
NoStored ==
  [map |-> NoMap, nodes |-> [n \in NodeIds |-> AbsentNode], edges |-> <<>>,
   opLog |-> <<>>, sequence |-> 0]

\* No session has joined a map, and the second map is empty.
NoSessions ==
  /\ socketMapId = [c \in Clients |-> NoId]
  /\ rooms = [c \in Clients |-> {}]
  /\ otherMap = NoStored

maxFailures == 2

unhealthyThreshold == 3

\* new HealthMonitor() with the database connected; monitoring not started
NoMonitor ==
  [isHealthy |-> TRUE, failureCount |-> 0, failoverTriggered |-> FALSE, isPrimary |-> TRUE,
   started |-> FALSE, monitoring |-> FALSE, initialCheck |-> FALSE, readyState |-> "connected",
   reachable |-> TRUE, logged |-> <<>>]

MonitorIdle == health = NoMonitor

\* No client is connected: nothing stored on a client, nothing in flight.
ClientsIdle ==
  /\ stores = [c \in Clients |-> NoStore]
  /\ toServer = [c \in Clients |-> <<>>]
  /\ toClient = [c \in Clients |-> <<>>]

Includes(type, word) ==
  CASE word = "Node" -> type \in {"addNode", "updateNode", "deleteNode", "moveNode"}
    [] word = "node" -> FALSE
    [] word = "Edge" -> type \in {"addEdge", "deleteEdge"}
    [] word = "edge" -> FALSE
    [] word = "CREATE" -> type \in {"NODE_CREATE", "EDGE_CREATE"}
    [] word = "DELETE" -> type \in {"NODE_DELETE", "EDGE_DELETE"}

\* Node.findOne / Node.exists ({ nodeId, isDeleted: false })
ActiveEdges(E) == {i \in 1..Len(E) : ~E[i].isDeleted}

ActiveNode(N, id) == N[id].present /\ ~N[id].isDeleted

\* ------------------------------------------------------------ vector clocks
compareVectorClocks_StaleOnEqual(currentVC, incomingVC) ==
  LET isGreater == \E user \in Clients : currentVC[user] < incomingVC[user]
  IN  IF isGreater THEN 1 ELSE -1

compareVectorClocks_ConcurrentIsOlder(currentVC, incomingVC) ==
  LET isLess == \E user \in Clients : currentVC[user] > incomingVC[user] IN
  IF isLess THEN -1 ELSE 1

\* clocks as the code holds them: a key may be missing, and reads as 0
getSequence(vectorClock, clientId) ==
  IF clientId \in DOMAIN vectorClock THEN vectorClock[clientId] ELSE 0

compareVectorClocks_Swapped(currentVC, incomingVC) ==
  LET users == DOMAIN currentVC \cup DOMAIN incomingVC
      isGreater == \E user \in users : getSequence(currentVC, user) > getSequence(incomingVC, user)
      isLess == \E user \in users : getSequence(currentVC, user) < getSequence(incomingVC, user)
  IN  IF isGreater /\ ~isLess THEN 1
      ELSE IF isLess /\ ~isGreater THEN -1
      ELSE 0

compareVectorClocks(currentVC, incomingVC) ==
  LET users == DOMAIN currentVC \cup DOMAIN incomingVC
      isGreater == \E user \in users : getSequence(currentVC, user) < getSequence(incomingVC, user)
      isLess == \E user \in users : getSequence(currentVC, user) > getSequence(incomingVC, user)
  IN  IF isGreater /\ ~isLess THEN 1
      ELSE IF isLess /\ ~isGreater THEN -1
      ELSE 0

vectorClockService_merge_Overwrite(clock1, clock2) == clock2

vectorClockService_merge_SecondKeysOnly(clock1, clock2) ==
  [clientId \in DOMAIN clock2 |->
     Max(getSequence(clock1, clientId), getSequence(clock2, clientId))]

vectorClockService_merge(clock1, clock2) ==
  [clientId \in DOMAIN clock1 \cup DOMAIN clock2 |->
     Max(getSequence(clock1, clientId), getSequence(clock2, clientId))]

compare_OwnKeysOnly(clock1, clock2) ==
  LET clock1Greater == \E clientId \in DOMAIN clock1 :
                         getSequence(clock1, clientId) > getSequence(clock2, clientId)
      clock2Greater == \E clientId \in DOMAIN clock1 :
                         getSequence(clock2, clientId) > getSequence(clock1, clientId)
  IN  IF clock1Greater /\ clock2Greater THEN "concurrent"
      ELSE IF clock1Greater THEN "after"
      ELSE IF clock2Greater THEN "before"
      ELSE "equal"

compare(clock1, clock2) ==
  LET allClients == DOMAIN clock1 \cup DOMAIN clock2
      clock1Greater == \E clientId \in allClients :
                         getSequence(clock1, clientId) > getSequence(clock2, clientId)
      clock2Greater == \E clientId \in allClients :
                         getSequence(clock2, clientId) > getSequence(clock1, clientId)
  IN  IF clock1Greater /\ clock2Greater THEN "concurrent"
      ELSE IF clock1Greater THEN "after"
      ELSE IF clock2Greater THEN "before"
      ELSE "equal"

increment(vectorClock, clientId) ==
  [id \in DOMAIN vectorClock \cup {clientId} |->
     IF id = clientId THEN getSequence(vectorClock, clientId) + 1 ELSE vectorClock[id]]

\* ------------------------------------------------------------ merge engine
Result(success, thrown, reason, N, E, entity) ==
  [success |-> success, thrown |-> thrown, reason |-> reason,
   nodes |-> N, edges |-> E, entity |-> entity]

cascadeDeleteEdges_SourceOnly(E, id) ==
  [i \in 1..Len(E) |->
     IF E[i].source = id /\ ~E[i].isDeleted
     THEN [E[i] EXCEPT !.isDeleted = TRUE] ELSE E[i]]

\* Edge.updateMany({ $or: [source = id, target = id], isDeleted: false }, { isDeleted: true })
cascadeDeleteEdges(E, id) ==
  [i \in 1..Len(E) |->
     IF (E[i].source = id \/ E[i].target = id) /\ ~E[i].isDeleted
     THEN [E[i] EXCEPT !.isDeleted = TRUE] ELSE E[i]]

applyNodeOperation(N, E, op) ==
  LET id == op.nodeId IN
  CASE op.type \in {"addNode", "NODE_CREATE"} ->
         IF N[id].present
         THEN Result(FALSE, TRUE, "Merge failed", N, E, NoId)
         ELSE Result(TRUE, FALSE, "", [N EXCEPT ![id] =
                [present |-> TRUE, isDeleted |-> FALSE, label |-> op.label,
                 vectorClock |-> op.vc, version |-> 1]], E, id)
    [] op.type \in {"updateNode", "NODE_UPDATE"} ->
         IF ~ActiveNode(N, id)
         THEN Result(FALSE, FALSE, "Node not found", N, E, NoId)
         ELSE IF compareVectorClocks(N[id].vectorClock, op.vc) = -1
         THEN Result(FALSE, FALSE, "Outdated edit (older vector clock)", N, E, NoId)
         ELSE Result(TRUE, FALSE, "", [N EXCEPT ![id] =
                [@ EXCEPT !.label = op.label,
                          !.vectorClock = vectorClockService_merge(@, op.vc),
                          !.version = @ + 1]], E, id)
    [] op.type \in {"deleteNode", "NODE_DELETE"} ->
         IF ~ActiveNode(N, id)
         THEN Result(FALSE, FALSE, "Node not found", N, E, NoId)
         ELSE Result(TRUE, FALSE, "", [N EXCEPT ![id].isDeleted = TRUE],
                     cascadeDeleteEdges(E, id), id)
    [] OTHER -> Result(FALSE, FALSE, "Unknown operation type", N, E, NoId)

\* Edge.findOne({ source, target, isDeleted: false }): the first stored match
findActiveEdge(E, from, to) ==
  LET hits == {i \in 1..Len(E) : E[i].source = from /\ E[i].target = to /\ ~E[i].isDeleted}
  IN  IF hits = {} THEN 0 ELSE CHOOSE i \in hits : \A j \in hits : i <= j

applyEdgeOperation(N, E, op) ==
  CASE op.type \in {"addEdge", "EDGE_CREATE"} ->
         LET sourceExists == ActiveNode(N, op.from)
             targetExists == ActiveNode(N, op.to)
         IN  IF ~sourceExists \/ ~targetExists
             THEN Result(FALSE, FALSE, "Source or target node not found", N, E, NoId)
             ELSE Result(TRUE, FALSE, "", N,
                    Append(E, [source |-> op.from, target |-> op.to, isDeleted |-> FALSE]),
                    Len(E) + 1)
    [] op.type \in {"deleteEdge", "EDGE_DELETE"} ->
         LET i == findActiveEdge(E, op.from, op.to)
         IN  IF i = 0
             THEN Result(FALSE, FALSE, "Edge not found", N, E, NoId)
             ELSE Result(TRUE, FALSE, "", N, [E EXCEPT ![i].isDeleted = TRUE], i)
    [] OTHER -> Result(FALSE, FALSE, "Unknown operation type", N, E, NoId)

\* Operation.getNextServerSequence(mapId): the map's counter, advanced and
\* returned in one atomic step
getNextServerSequence(issued) == issued + 1

\* map.stats update by the substrings of the operation type
updateStats(stats, type) ==
  IF Includes(type, "Node") /\ Includes(type, "CREATE")
  THEN [stats EXCEPT !.nodeCount = @ + 1]
  ELSE IF Includes(type, "Node") /\ Includes(type, "DELETE")
  THEN [stats EXCEPT !.nodeCount = @ - 1]
  ELSE IF Includes(type, "Edge") /\ Includes(type, "CREATE")
  THEN [stats EXCEPT !.edgeCount = @ + 1]
  ELSE IF Includes(type, "Edge") /\ Includes(type, "DELETE")
  THEN [stats EXCEPT !.edgeCount = @ - 1]
  ELSE stats

\* stage: how far the call got ("stale": the map-level check, "category": the
\* dispatch, "rejected"/"thrown": the apply function, "mapSave"/"logAppend": the
\* persistence step that threw, "done": the return of a valid result).
Outcome_LogsRejections(valid, reason, stage, M, N, E, L, Q) ==
  [valid |-> valid, reason |-> reason, stage |-> stage,
   map |-> M, nodes |-> N, edges |-> E,
   opLog |-> IF stage = "rejected"
             THEN Append(L, [type |-> "none", entityId |-> NoId, entityType |-> "node",
                             vectorClock |-> ZeroVC, serverSequence |-> Q + 1,
                             status |-> "applied"])
             ELSE L,
   sequence |-> Q]

Outcome(valid, reason, stage, M, N, E, L, Q) ==
  [valid |-> valid, reason |-> reason, stage |-> stage,
   map |-> M, nodes |-> N, edges |-> E, opLog |-> L, sequence |-> Q]

\* merge(op): the whole call, run without interleaving. fail names the
\* persistence step that throws, if the call gets that far.
mergeOutcome(M, N, E, L, Q, op, fail) ==
  LET currentVC == M.vectorClock
      incomingVC == op.vc
      comparison == compareVectorClocks(currentVC, incomingVC)
  IN
  IF comparison = -1
  THEN Outcome(FALSE, "Outdated edit (older vector clock)", "stale", M, N, E, L, Q)
  ELSE IF ~(Includes(op.type, "Node") \/ Includes(op.type, "node")
            \/ Includes(op.type, "Edge") \/ Includes(op.type, "edge"))
  THEN Outcome(FALSE, "Unknown operation category", "category", M, N, E, L, Q)
  ELSE
    LET result == IF Includes(op.type, "Node") \/ Includes(op.type, "node")
                  THEN applyNodeOperation(N, E, op)
                  ELSE applyEdgeOperation(N, E, op)
        mergedVC == [user \in Clients |-> Max(currentVC[user], incomingVC[user])]
        newMap == [M EXCEPT !.vectorClock = mergedVC,
                            !.version = @ + 1,
                            !.stats = updateStats(@, op.type)]
        record == [type |-> op.type, entityId |-> result.entity,
                   entityType |-> IF Includes(op.type, "Node") THEN "node" ELSE "edge",
                   vectorClock |-> incomingVC,
                   serverSequence |-> getNextServerSequence(Q),
                   status |-> "applied"]
    IN
    IF result.thrown
    THEN Outcome(FALSE, "Merge failed", "thrown", M, result.nodes, result.edges, L, Q)
    ELSE IF ~result.success
    THEN Outcome(FALSE, result.reason, "rejected", M, N, E, L, Q)
    ELSE IF fail = "mapSave"
    THEN Outcome(FALSE, "Merge failed", "mapSave", M, result.nodes, result.edges, L, Q)
    ELSE IF fail = "logAppend"
    THEN Outcome(FALSE, "Merge failed", "logAppend", newMap, result.nodes, result.edges, L,
                 getNextServerSequence(Q))
    ELSE Outcome(TRUE, "", "done", newMap, result.nodes, result.edges, Append(L, record),
                 getNextServerSequence(Q))

mergeCall(op, fail) ==
  LET out == mergeOutcome(map, nodes, edges, opLog, sequence, op, fail) IN
     /\ nodes' = out.nodes
     /\ edges' = out.edges
     /\ map' = out.map
     /\ opLog' = out.opLog
     /\ sequence' = out.sequence
     /\ last' = [handler |-> "merge", op |-> op, valid |-> out.valid,
                 reason |-> out.reason, stage |-> out.stage,
                 mapVCBefore |-> map.vectorClock,
                 nodeBefore |-> IF op.nodeId \in NodeIds THEN nodes[op.nodeId]
                                ELSE AbsentNode]

\* One merge call of the edit stream; a persistence failure is drawn only for
\* a call that gets as far as the persistence steps.
Merge(op, fail) ==
  /\ steps < MaxSteps
  /\ fail # "none" => mergeOutcome(map, nodes, edges, opLog, sequence, op, "none").valid
  /\ mergeCall(op, fail)
  /\ steps' = steps + 1
  /\ UNCHANGED <<script, calls, response, procs, clientVars, sessionVars, health>>

\* ------------------------------------------------------------ live handlers
\* socket.on('node:add'), run without interleaving: the client's new node
\* (label 'New Node') is saved under its id, which the unique index refuses
\* when a document with that id is stored already.
NodeAdd(id) ==
  /\ nodes' = IF nodes[id].present THEN nodes
              ELSE [nodes EXCEPT ![id] =
                     [present |-> TRUE, isDeleted |-> FALSE, label |-> NewNodeLabel,
                      vectorClock |-> ZeroVC, version |-> 1]]
  /\ UNCHANGED <<edges, map, opLog, sequence, last, steps, script, calls, response, procs, clientVars, sessionVars, health>>

\* ------------------------------------------------------------ specification


Init ==
  /\ NoSessions
  /\ MonitorIdle
  /\ nodes = [n \in NodeIds |-> AbsentNode]
  /\ edges = <<>>
  /\ map = [vectorClock |-> ZeroVC, version |-> 0,
            stats |-> [nodeCount |-> 0, edgeCount |-> 0]]
  /\ opLog = <<>>
  /\ sequence = 0
  /\ response = NoResponse
  /\ last = NoCall
  /\ steps = 0
  /\ script = <<>>
  /\ calls = <<>>
  /\ procs = [c \in Clients |-> NoProc]
  /\ ClientsIdle

Next ==
  \/ \E op \in Ops, fail \in Failures : Merge(op, fail)
  \/ \E id \in NodeIds : NodeAdd(id)

Spec == Init /\ [][Next]_vars

\* ------------------------------------------------------------ scenario B
\* Two clients update the same node concurrently from the map clock {}: X with
\* clock {X:1}, Y with clock {Y:1}; the two merges run one after the other,
\* in either order, and no persistence step fails.
ClockOf(client) == [u \in Clients |-> IF u = client THEN 1 ELSE 0]

UpdateBy(client, id, label) ==
  [type |-> "updateNode", nodeId |-> id, label |-> label,
   from |-> NoId, to |-> NoId, vc |-> ClockOf(client)]

LiveNode(label) ==
  [present |-> TRUE, isDeleted |-> FALSE, label |-> label,
   vectorClock |-> ZeroVC, version |-> 1]

InitScenarioB ==
  /\ NoSessions
  /\ MonitorIdle
  /\ \E n \in NodeIds, l0 \in Labels \cup {NewNodeLabel}, other \in BOOLEAN,
        a \in Labels, b \in Labels, first \in Clients :
       /\ nodes = [m \in NodeIds |-> IF m = n THEN LiveNode(l0)
                                     ELSE IF other THEN LiveNode(NewNodeLabel)
                                     ELSE AbsentNode]
       /\ script = IF first = "X"
                   THEN <<UpdateBy("X", n, a), UpdateBy("Y", n, b)>>
                   ELSE <<UpdateBy("Y", n, b), UpdateBy("X", n, a)>>
  /\ edges = <<>>
  /\ map = [vectorClock |-> ZeroVC, version |-> 0,
            stats |-> [nodeCount |-> 0, edgeCount |-> 0]]
  /\ opLog = <<>>
  /\ sequence = 0
  /\ response = NoResponse
  /\ last = NoCall
  /\ steps = 0
  /\ calls = <<>>
  /\ procs = [c \in Clients |-> NoProc]
  /\ ClientsIdle

SubmitNext ==
  /\ script # <<>>
  /\ mergeCall(Head(script), "none")
  /\ script' = Tail(script)
  /\ calls' = Append(calls, [op |-> Head(script), valid |-> last'.valid])
  /\ UNCHANGED <<steps, procs, response, clientVars, sessionVars, health>>

NextScenarioB == SubmitNext

SpecScenarioB == InitScenarioB /\ [][NextScenarioB]_vars

\* ------------------------------------------------------------ one call on a stored graph
\* A single merge call on a map that already holds nodes and edges: the
\* stored graph is one the live handlers can have built (node:add, node:update
\* and up to three edge:add events), every edge still active.
ActiveEdge(source, target) == [source |-> source, target |-> target, isDeleted |-> FALSE]

SomeEdges == {ActiveEdge(p[1], p[2]) : p \in NodeIds \X NodeIds}

EdgeLists ==
  {<<>>} \cup {<<e>> : e \in SomeEdges}
  \cup {<<e, f>> : e \in SomeEdges, f \in SomeEdges}
  \cup {<<ActiveEdge("n1", "n2"), e, f>> : e \in SomeEdges, f \in SomeEdges}

InitCascade ==
  /\ NoSessions
  /\ MonitorIdle
  /\ nodes = [n \in NodeIds |-> LiveNode(NewNodeLabel)]
  /\ edges \in EdgeLists
  /\ map = NoMap
  /\ opLog = <<>>
  /\ sequence = 0
  /\ response = NoResponse
  /\ last = NoCall
  /\ steps = 0
  /\ \E d \in [type : {"deleteNode"}, nodeId : NodeIds, label : {NoLabel},
               from : {NoId}, to : {NoId}, vc : SomeVC] : script = <<d>>
  /\ calls = <<>>
  /\ procs = [c \in Clients |-> NoProc]
  /\ ClientsIdle

SpecCascade == InitCascade /\ [][SubmitNext]_vars

\* ------------------------------------------------------------ catch-up query
\* GET /:mapId/since/:sequence on a map whose log holds the records of k
\* accepted operations, merged one after the other.
RECURSIVE AfterMerges(_)
AfterMerges(k) ==
  IF k = 0
  THEN Outcome(TRUE, "", "done", NoMap,
               [n \in NodeIds |-> IF n = "n1" THEN LiveNode(NewNodeLabel) ELSE AbsentNode],
               <<>>, <<>>, 0)
  ELSE LET prev == AfterMerges(k - 1) IN
       mergeOutcome(prev.map, prev.nodes, prev.edges, prev.opLog, prev.sequence,
                    [type |-> "updateNode", nodeId |-> "n1",
                     label |-> IF k % 2 = 1 THEN "A" ELSE "B",
                     from |-> NoId, to |-> NoId, vc |-> ZeroVC], "none")

\* the value a sort or a comparison on `sequence` sees in a stored record
sequenceOf(r) == IF "sequence" \in DOMAIN r THEN r["sequence"] ELSE 0

\* .sort({ sequence: 1 }): ascending, records with equal keys in stored order
RECURSIVE sortBySequence(_)
sortBySequence(S) ==
  IF S = <<>> THEN <<>>
  ELSE LET i == CHOOSE i \in 1..Len(S) :
                  \A j \in 1..Len(S) :
                     \/ sequenceOf(S[i]) < sequenceOf(S[j])
                     \/ sequenceOf(S[i]) = sequenceOf(S[j]) /\ i <= j
       IN  <<S[i]>> \o sortBySequence(SubSeq(S, 1, i - 1) \o SubSeq(S, i + 1, Len(S)))

\* Operation.find({ mapId, sequence: { $gt: N } }).sort({ sequence: 1 }).
\* The stored records carry serverSequence and no field named sequence. stripped:
\* the query layer drops a filter on a path the schema does not declare
\* (strictQuery); otherwise the filter is applied as written.
getOperationsSince(L, N, stripped) ==
  LET matches(r) == "sequence" \in DOMAIN r /\ r["sequence"] > N
  IN  sortBySequence(IF stripped THEN L ELSE SelectSeq(L, matches))

GetOperationsSince(N, stripped) ==
  /\ response' = [kind |-> "since", since |-> N,
                  operations |-> getOperationsSince(opLog, N, stripped)]
  /\ UNCHANGED <<nodes, edges, map, opLog, sequence, last, steps, script, calls, procs, clientVars, sessionVars, health>>

InitSince ==
  /\ NoSessions
  /\ MonitorIdle
  /\ \E k \in 0..MaxLog :
       LET stored == AfterMerges(k) IN
       /\ nodes = stored.nodes
       /\ edges = stored.edges
       /\ map = stored.map
       /\ opLog = stored.opLog
       /\ sequence = stored.sequence
  /\ response = NoResponse
  /\ last = NoCall
  /\ steps = 0
  /\ script = <<>>
  /\ calls = <<>>
  /\ procs = [c \in Clients |-> NoProc]
  /\ ClientsIdle

NextSince == \E N \in 0..MaxLog, stripped \in BOOLEAN : GetOperationsSince(N, stripped)

SpecSince == InitSince /\ [][NextSince]_vars

\* ------------------------------------------------------------ rollback
\* services/rollback.js and the HTTP rollback endpoint, acting on a record of
\* the operation log.

\* const { previousState } = operation: what the record carries, if anything
hasPreviousState(operation) == "previousState" \in DOMAIN operation

previousStateOf(operation) ==
  IF hasPreviousState(operation) THEN operation["previousState"] ELSE AbsentNode

rollbackNodeOperation(N, operation) ==
  LET id == operation.entityId
      previousState == previousStateOf(operation)
  IN
  CASE operation.type \in {"NODE_CREATE", "addNode"} ->
         IF N[id].present THEN [N EXCEPT ![id].isDeleted = TRUE] ELSE N
    [] operation.type \in {"NODE_UPDATE", "updateNode"} ->
         IF hasPreviousState(operation) /\ N[id].present
         THEN [N EXCEPT ![id].label = previousState.label,
                        ![id].vectorClock = previousState.vectorClock]
         ELSE N
    [] operation.type \in {"NODE_DELETE", "deleteNode"} ->
         IF hasPreviousState(operation) /\ N[id].present
         THEN [N EXCEPT ![id] = [previousState EXCEPT !.isDeleted = FALSE]]
         ELSE N
    [] OTHER -> N

rollbackEdgeOperation(E, operation) ==
  LET i == operation.entityId IN
  CASE operation.type \in {"EDGE_CREATE", "addEdge"} ->
         [E EXCEPT ![i].isDeleted = TRUE]
    [] operation.type \in {"EDGE_DELETE", "deleteEdge"} ->
         IF hasPreviousState(operation)
         THEN [E EXCEPT ![i] = [previousStateOf(operation) EXCEPT !.isDeleted = FALSE]]
         ELSE E
    [] OTHER -> E

\* the stats update of rollback, by the substrings of the operation type
rollbackStats(stats, operation) ==
  IF Includes(operation.type, "CREATE")
  THEN IF operation.entityType = "node"
       THEN [stats EXCEPT !.nodeCount = Max(0, @ - 1)]
       ELSE [stats EXCEPT !.edgeCount = Max(0, @ - 1)]
  ELSE IF Includes(operation.type, "DELETE")
  THEN IF operation.entityType = "node"
       THEN [stats EXCEPT !.nodeCount = @ + 1]
       ELSE [stats EXCEPT !.edgeCount = @ + 1]
  ELSE stats

\* operation.rollback(): the record's status transition applied -> rolled_back
operationRollback(operation) == [operation EXCEPT !.status = "rolled_back"]

RollbackResult(success, reason, M, N, E, L) ==
  [success |-> success, reason |-> reason, map |-> M, nodes |-> N, edges |-> E, opLog |-> L]

\* the awaited store calls of rollback at which an exception can be thrown
RollbackFailures == {"none", "find", "entity", "operation", "map"}

rollbackOutcome_DecrementsVersion(M, N, E, L, i, fail) ==
  IF i \in 1..Len(L) /\ L[i].status # "rolled_back" /\ fail = "none"
  THEN RollbackResult(TRUE, "", [M EXCEPT !.version = Max(0, @ - 1)],
         IF L[i].entityType = "node" THEN rollbackNodeOperation(N, L[i]) ELSE N,
         IF L[i].entityType = "edge" THEN rollbackEdgeOperation(E, L[i]) ELSE E,
         [L EXCEPT ![i] = operationRollback(@)])
  ELSE RollbackResult(FALSE, "Rollback failed", M, N, E, L)

\* rollback({ operationId }): i is the place of the record in the log, or one
\* past its end for an id no record has; fail is the store call that throws
rollbackOutcome(M, N, E, L, i, fail) ==
  IF fail = "find"
  THEN RollbackResult(FALSE, "Rollback failed", M, N, E, L)
  ELSE IF i \notin 1..Len(L)
  THEN RollbackResult(FALSE, "Operation not found", M, N, E, L)
  ELSE
  LET operation == L[i]
      N2 == IF operation.entityType = "node" THEN rollbackNodeOperation(N, operation) ELSE N
      E2 == IF operation.entityType = "edge" THEN rollbackEdgeOperation(E, operation) ELSE E
      L2 == [L EXCEPT ![i] = operationRollback(@)]
      M2 == [M EXCEPT !.stats = rollbackStats(@, operation)]
  IN
  IF operation.status = "rolled_back"
  THEN RollbackResult(FALSE, "Operation already rolled back", M, N, E, L)
  ELSE CASE fail = "entity" -> RollbackResult(FALSE, "Rollback failed", M, N, E, L)
         [] fail = "operation" -> RollbackResult(FALSE, "Rollback failed", M, N2, E2, L)
         [] fail = "map" -> RollbackResult(FALSE, "Rollback failed", M, N2, E2, L2)
         [] OTHER -> RollbackResult(TRUE, "", M2, N2, E2, L2)

RollbackService ==
  \E i \in 1..(Len(opLog) + 1), fail \in RollbackFailures :
  /\ LET out == rollbackOutcome(map, nodes, edges, opLog, i, fail) IN
     /\ map' = out.map
     /\ nodes' = out.nodes
     /\ edges' = out.edges
     /\ opLog' = out.opLog
     /\ response' = [kind |-> "rollback", index |-> i,
                     success |-> out.success, reason |-> out.reason]
  /\ UNCHANGED <<sequence, last, steps, script, calls, procs, clientVars, sessionVars, health>>

\* POST /operation/:operationId/rollback
RollbackEndpoint ==
  \E i \in 1..(Len(opLog) + 1) :
  /\ IF i \notin 1..Len(opLog)
     THEN /\ opLog' = opLog
          /\ response' = [kind |-> "rollbackEndpoint", index |-> i,
                          success |-> FALSE, reason |-> "Operation not found"]
     ELSE /\ opLog' = [opLog EXCEPT ![i] =
                        [f \in DOMAIN @ \cup {"isRolledBack"} |->
                           IF f = "isRolledBack" THEN TRUE ELSE @[f]]]
          /\ response' = [kind |-> "rollbackEndpoint", index |-> i,
                          success |-> TRUE, reason |-> ""]
  /\ UNCHANGED <<nodes, edges, map, sequence, last, steps, script, calls, procs, clientVars, sessionVars, health>>

RollbackOps ==
  [type : {"updateNode"}, nodeId : NodeIds, label : Labels, from : {NoId}, to : {NoId}, vc : SomeVC]
  \cup [type : {"addNode", "deleteNode"}, nodeId : NodeIds, label : {NewNodeLabel},
        from : {NoId}, to : {NoId}, vc : SomeVC]
  \cup [type : {"addEdge", "deleteEdge"}, nodeId : {NoId}, label : {NoLabel},
        from : {"n1"}, to : {"n2"}, vc : SomeVC]

\* A stored graph the live handlers can have built, and one operation to merge.
InitRollback ==
  /\ NoSessions
  /\ MonitorIdle
  /\ \E other \in BOOLEAN, linked \in BOOLEAN :
       /\ nodes = [m \in NodeIds |-> IF m = "n1" \/ other THEN LiveNode(NewNodeLabel)
                                     ELSE AbsentNode]
       /\ edges = IF other /\ linked THEN <<ActiveEdge("n1", "n2")>> ELSE <<>>
  /\ map = NoMap
  /\ opLog = <<>>
  /\ sequence = 0
  /\ response = NoResponse
  /\ last = NoCall
  /\ steps = 0
  /\ \E op \in RollbackOps : script = <<op>>
  /\ calls = <<>>
  /\ procs = [c \in Clients |-> NoProc]
  /\ ClientsIdle

NextRollback ==
  \/ SubmitNext
  \/ RollbackService
  \/ RollbackEndpoint

SpecRollback == InitRollback /\ [][NextRollback]_vars

\* rollback({ operationId }) of the operation merged last, followed at once by
\* merge of a new operation of the same type, target and data, whose clock is
\* a later one of the same client.
Reversal ==
  /\ script = <<>>
  /\ Len(calls) = 1
  /\ calls[1].valid
  /\ response = NoResponse
  /\ \E fresh \in VC :
       /\ \A u \in Clients : calls[1].op.vc[u] <= fresh[u]
       /\ fresh # calls[1].op.vc
       /\ LET back == rollbackOutcome(map, nodes, edges, opLog, Len(opLog), "none")
              op == [calls[1].op EXCEPT !.vc = fresh]
              out == mergeOutcome(back.map, back.nodes, back.edges, back.opLog,
                                  sequence, op, "none")
          IN
          /\ nodes' = out.nodes
          /\ edges' = out.edges
          /\ map' = out.map
          /\ opLog' = out.opLog
          /\ sequence' = out.sequence
          /\ response' = [kind |-> "reversal", index |-> Len(opLog),
                          success |-> back.success, reason |-> back.reason]
          /\ last' = [handler |-> "merge", op |-> op, valid |-> out.valid,
                      reason |-> out.reason, stage |-> out.stage,
                      mapVCBefore |-> back.map.vectorClock,
                      nodeBefore |-> IF op.nodeId \in NodeIds THEN back.nodes[op.nodeId]
                                     ELSE AbsentNode]
          /\ calls' = Append(calls, [op |-> op, valid |-> out.valid])
  /\ UNCHANGED <<steps, script, procs, clientVars, sessionVars, health>>

NextReversal ==
  \/ SubmitNext
  \/ Reversal

SpecReversal == InitRollback /\ [][NextReversal]_vars

\* ------------------------------------------------------------ concurrent merges
\* Two merge calls in flight at once, one per client. Every awaited database
\* call of merge, applyNodeOperation and applyEdgeOperation is one step; the
\* synchronous code up to the next awaited call belongs to the step before it.
\* Nothing serialises the calls on a map.
LabelOf(client) == IF client = "X" THEN "A" ELSE "B"

ConcurrentOps(client) ==
  {UpdateBy(client, n, LabelOf(client)) : n \in NodeIds}
  \cup [type : {"addNode"}, nodeId : NodeIds, label : {NewNodeLabel},
        from : {NoId}, to : {NoId}, vc : {ClockOf(client)}]
  \cup [type : {"deleteNode"}, nodeId : NodeIds, label : {NoLabel},
        from : {NoId}, to : {NoId}, vc : {ClockOf(client)}]
  \cup [type : {"addEdge"}, nodeId : {NoId}, label : {NoLabel},
        from : NodeIds, to : NodeIds, vc : {ClockOf(client)}]
  \cup [type : {"deleteEdge"}, nodeId : {NoId}, label : {NoLabel},
        from : {"n1"}, to : {"n2"}, vc : {ClockOf(client)}]

Goto(c, pc) == [procs EXCEPT ![c].pc = pc]

Return(c, valid, reason) ==
  [procs EXCEPT ![c].pc = "done", ![c].valid = valid, ![c].reason = reason]

\* The first awaited call of the apply function the dispatch selects.
firstStep(type) ==
  CASE type = "addNode" -> "nodeInsert"
    [] type \in {"updateNode", "deleteNode"} -> "nodeFind"
    [] type = "addEdge" -> "sourceExists"
    [] type = "deleteEdge" -> "edgeFind"

\* Map.findOne, the map-level comparison and the dispatch
LoadMap(c) ==
  /\ procs[c].pc = "load"
  /\ procs' = IF compareVectorClocks(map.vectorClock, procs[c].op.vc) = -1
              THEN Return(c, FALSE, "Outdated edit (older vector clock)")
              ELSE [procs EXCEPT ![c].map = map,
                                 ![c].pc = firstStep(procs[c].op.type)]
  /\ UNCHANGED <<nodes, edges, map, opLog, sequence, last, steps, script, calls, response, clientVars, sessionVars, health>>

\* newNode.save(): the unique index on nodeId refuses a second document
NodeInsert(c) ==
  /\ procs[c].pc = "nodeInsert"
  /\ LET r == applyNodeOperation(nodes, edges, procs[c].op) IN
     /\ nodes' = r.nodes
     /\ procs' = IF r.thrown THEN Return(c, FALSE, "Merge failed")
                 ELSE [procs EXCEPT ![c].entity = r.entity, ![c].pc = "mapSave"]
  /\ UNCHANGED <<edges, map, opLog, sequence, last, steps, script, calls, response, clientVars, sessionVars, health>>

\* Node.findOne({ nodeId, isDeleted: false }) of updateNode and deleteNode,
\* with updateNode's comparison against the node's clock
NodeFind(c) ==
  /\ procs[c].pc = "nodeFind"
  /\ LET op == procs[c].op IN
     procs' = IF ~ActiveNode(nodes, op.nodeId)
              THEN Return(c, FALSE, "Node not found")
              ELSE IF op.type = "updateNode"
                      /\ compareVectorClocks(nodes[op.nodeId].vectorClock, op.vc) = -1
              THEN Return(c, FALSE, "Outdated edit (older vector clock)")
              ELSE [procs EXCEPT ![c].node = nodes[op.nodeId],
                                 ![c].entity = op.nodeId,
                                 ![c].pc = "nodeSave"]
  /\ UNCHANGED <<nodes, edges, map, opLog, sequence, last, steps, script, calls, response, clientVars, sessionVars, health>>

\* nodeToUpdate.save() / nodeToDelete.save(): the paths changed on the
\* document read earlier are written from that document
NodeSave(c) ==
  /\ procs[c].pc = "nodeSave"
  /\ LET op == procs[c].op
         doc == procs[c].node
     IN  IF op.type = "updateNode"
         THEN /\ nodes' = [nodes EXCEPT ![op.nodeId] =
                    [@ EXCEPT !.label = op.label,
                              !.vectorClock = vectorClockService_merge(doc.vectorClock, op.vc),
                              !.version = doc.version + 1]]
              /\ procs' = Goto(c, "mapSave")
         ELSE /\ nodes' = [nodes EXCEPT ![op.nodeId].isDeleted = TRUE]
              /\ procs' = Goto(c, "cascade")
  /\ UNCHANGED <<edges, map, opLog, sequence, last, steps, script, calls, response, clientVars, sessionVars, health>>

\* Edge.updateMany of deleteNode
CascadeEdges(c) ==
  /\ procs[c].pc = "cascade"
  /\ edges' = cascadeDeleteEdges(edges, procs[c].op.nodeId)
  /\ procs' = Goto(c, "mapSave")
  /\ UNCHANGED <<nodes, map, opLog, sequence, last, steps, script, calls, response, clientVars, sessionVars, health>>

\* Node.exists for the source of addEdge
SourceExists(c) ==
  /\ procs[c].pc = "sourceExists"
  /\ procs' = [procs EXCEPT ![c].sourceExists = ActiveNode(nodes, procs[c].op.from),
                            ![c].pc = "targetExists"]
  /\ UNCHANGED <<nodes, edges, map, opLog, sequence, last, steps, script, calls, response, clientVars, sessionVars, health>>

\* Node.exists for the target of addEdge, and the check of both answers
TargetExists(c) ==
  /\ procs[c].pc = "targetExists"
  /\ LET targetExists == ActiveNode(nodes, procs[c].op.to) IN
     procs' = IF ~procs[c].sourceExists \/ ~targetExists
              THEN Return(c, FALSE, "Source or target node not found")
              ELSE Goto(c, "edgeInsert")
  /\ UNCHANGED <<nodes, edges, map, opLog, sequence, last, steps, script, calls, response, clientVars, sessionVars, health>>

\* newEdge.save()
EdgeInsert(c) ==
  /\ procs[c].pc = "edgeInsert"
  /\ edges' = Append(edges, [source |-> procs[c].op.from, target |-> procs[c].op.to,
                             isDeleted |-> FALSE])
  /\ procs' = [procs EXCEPT ![c].entity = Len(edges) + 1, ![c].pc = "mapSave"]
  /\ UNCHANGED <<nodes, map, opLog, sequence, last, steps, script, calls, response, clientVars, sessionVars, health>>

\* Edge.findOne of deleteEdge
EdgeFind(c) ==
  /\ procs[c].pc = "edgeFind"
  /\ LET i == findActiveEdge(edges, procs[c].op.from, procs[c].op.to) IN
     procs' = IF i = 0 THEN Return(c, FALSE, "Edge not found")
              ELSE [procs EXCEPT ![c].entity = i, ![c].pc = "edgeSave"]
  /\ UNCHANGED <<nodes, edges, map, opLog, sequence, last, steps, script, calls, response, clientVars, sessionVars, health>>

\* edgeToDelete.save()
EdgeSave(c) ==
  /\ procs[c].pc = "edgeSave"
  /\ edges' = [edges EXCEPT ![procs[c].entity].isDeleted = TRUE]
  /\ procs' = Goto(c, "mapSave")
  /\ UNCHANGED <<nodes, map, opLog, sequence, last, steps, script, calls, response, clientVars, sessionVars, health>>

\* map.save(): the clock merged from the clock this call loaded, and the
\* version this call loaded plus one, are written over the stored ones
MapSave(c) ==
  /\ procs[c].pc = "mapSave"
  /\ LET currentVC == procs[c].map.vectorClock
         incomingVC == procs[c].op.vc
         mergedVC == [user \in Clients |-> Max(currentVC[user], incomingVC[user])]
         stats == updateStats(procs[c].map.stats, procs[c].op.type)
     IN  map' = [vectorClock |-> mergedVC,
                 version |-> procs[c].map.version + 1,
                 stats |-> IF stats = procs[c].map.stats THEN map.stats ELSE stats]
  /\ procs' = Goto(c, "nextSequence")
  /\ UNCHANGED <<nodes, edges, opLog, sequence, last, steps, script, calls, response, clientVars, sessionVars, health>>

NextSequence_FromLog(c) ==
  /\ procs[c].pc = "nextSequence"
  /\ sequence' = Len(opLog) + 1
  /\ procs' = [procs EXCEPT ![c].serverSequence = Len(opLog) + 1,
                            ![c].pc = "logSave"]
  /\ UNCHANGED <<nodes, edges, map, opLog, last, steps, script, calls, response, clientVars, sessionVars, health>>

\* Operation.getNextServerSequence(mapId)
NextSequence(c) ==
  /\ procs[c].pc = "nextSequence"
  /\ sequence' = getNextServerSequence(sequence)
  /\ procs' = [procs EXCEPT ![c].serverSequence = sequence',
                            ![c].pc = "logSave"]
  /\ UNCHANGED <<nodes, edges, map, opLog, last, steps, script, calls, response, clientVars, sessionVars, health>>

\* operation.save() and the return of the valid result
LogSave(c) ==
  /\ procs[c].pc = "logSave"
  /\ LET op == procs[c].op IN
     opLog' = Append(opLog,
                [type |-> op.type, entityId |-> procs[c].entity,
                 entityType |-> IF Includes(op.type, "Node") THEN "node" ELSE "edge",
                 vectorClock |-> op.vc,
                 serverSequence |-> procs[c].serverSequence,
                 status |-> "applied"])
  /\ procs' = Return(c, TRUE, "")
  /\ UNCHANGED <<nodes, edges, map, sequence, last, steps, script, calls, response, clientVars, sessionVars, health>>

InitConcurrent ==
  /\ NoSessions
  /\ MonitorIdle
  /\ \E other \in BOOLEAN, linked \in BOOLEAN :
       /\ nodes = [m \in NodeIds |-> IF m = "n1" \/ other THEN LiveNode(NewNodeLabel)
                                     ELSE AbsentNode]
       /\ edges = IF other /\ linked
                  THEN <<[source |-> "n1", target |-> "n2", isDeleted |-> FALSE]>>
                  ELSE <<>>
  /\ map = NoMap
  /\ opLog = <<>>
  /\ sequence = 0
  /\ response = NoResponse
  /\ last = NoCall
  /\ steps = 0
  /\ script = <<>>
  /\ calls = <<>>
  /\ ClientsIdle
  /\ \E x \in ConcurrentOps("X"), y \in ConcurrentOps("Y") :
       procs = [c \in Clients |->
                  [NoProc EXCEPT !.op = IF c = "X" THEN x ELSE y, !.pc = "load"]]

NextConcurrent ==
  \E c \in Clients :
    \/ LoadMap(c)
    \/ NodeInsert(c)
    \/ NodeFind(c)
    \/ NodeSave(c)
    \/ CascadeEdges(c)
    \/ SourceExists(c)
    \/ TargetExists(c)
    \/ EdgeInsert(c)
    \/ EdgeFind(c)
    \/ EdgeSave(c)
    \/ MapSave(c)
    \/ NextSequence(c)
    \/ LogSave(c)

SpecConcurrent == InitConcurrent /\ [][NextConcurrent]_vars

\* ------------------------------------------------------------ readers and deletions
\* A sync:request in flight while a node is being deleted, by the live
\* node:remove handler or by a deleteNode merge. Each awaited database call is
\* one step.

\* node:remove, first call: Node.updateOne({ nodeId }, { isDeleted: true })
RemoveNode(c) ==
  /\ procs[c].pc = "removeNode"
  /\ LET id == procs[c].op.nodeId IN
     nodes' = IF nodes[id].present THEN [nodes EXCEPT ![id].isDeleted = TRUE] ELSE nodes
  /\ procs' = Goto(c, "removeEdges")
  /\ UNCHANGED <<edges, map, opLog, sequence, last, steps, script, calls, response, clientVars, sessionVars, health>>

\* node:remove, second call: Edge.updateMany({ $or: [from, to] }, { isDeleted: true })
RemoveEdges(c) ==
  /\ procs[c].pc = "removeEdges"
  /\ LET id == procs[c].op.nodeId IN
     edges' = [i \in 1..Len(edges) |->
                 IF edges[i].source = id \/ edges[i].target = id
                 THEN [edges[i] EXCEPT !.isDeleted = TRUE] ELSE edges[i]]
  /\ procs' = Goto(c, "done")
  /\ UNCHANGED <<nodes, map, opLog, sequence, last, steps, script, calls, response, clientVars, sessionVars, health>>

\* sync:request, first call: Node.find({ isDeleted: false })
SyncReadNodes(c) ==
  /\ procs[c].pc = "readNodes"
  /\ procs' = [procs EXCEPT
       ![c].snapshot.nodes = {[id |-> n, label |-> nodes[n].label] :
                                n \in {m \in NodeIds : ActiveNode(nodes, m)}},
       ![c].pc = "readEdges"]
  /\ UNCHANGED <<nodes, edges, map, opLog, sequence, last, steps, script, calls, response, clientVars, sessionVars, health>>

\* sync:request, second call: Edge.find({ isDeleted: false }), then the
\* sync:response with both results
SyncReadEdges(c) ==
  /\ procs[c].pc = "readEdges"
  /\ procs' = [procs EXCEPT
       ![c].snapshot.edges = {[id |-> i, source |-> edges[i].source, target |-> edges[i].target] :
                                i \in ActiveEdges(edges)},
       ![c].pc = "done"]
  /\ UNCHANGED <<nodes, edges, map, opLog, sequence, last, steps, script, calls, response, clientVars, sessionVars, health>>

StoredEdges ==
  {<<[source |-> "n1", target |-> "n2", isDeleted |-> FALSE]>>,
   <<[source |-> "n2", target |-> "n1", isDeleted |-> FALSE]>>,
   <<[source |-> "n1", target |-> "n2", isDeleted |-> FALSE],
     [source |-> "n1", target |-> "n2", isDeleted |-> TRUE]>>}

Deletions(client) ==
  [type : {"deleteNode"}, nodeId : NodeIds, label : {NoLabel},
   from : {NoId}, to : {NoId}, vc : {ZeroVC, ClockOf(client)}]
  \cup [type : {"node:remove"}, nodeId : NodeIds, label : {NoLabel},
        from : {NoId}, to : {NoId}, vc : {ZeroVC}]

InitSync ==
  /\ NoSessions
  /\ MonitorIdle
  /\ nodes \in [NodeIds -> {LiveNode(l) : l \in {NewNodeLabel, "A"}}]
  /\ edges \in StoredEdges
  /\ map = NoMap
  /\ opLog = <<>>
  /\ sequence = 0
  /\ response = NoResponse
  /\ last = NoCall
  /\ steps = 0
  /\ script = <<>>
  /\ calls = <<>>
  /\ ClientsIdle
  /\ \E reader \in Clients :
       \E d \in Deletions(CHOOSE c \in Clients : c # reader) :
         procs = [c \in Clients |->
                    IF c = reader
                    THEN [NoProc EXCEPT !.op.type = "sync:request", !.pc = "readNodes"]
                    ELSE [NoProc EXCEPT !.op = d,
                            !.pc = IF d.type = "deleteNode" THEN "load" ELSE "removeNode"]]

NextSync ==
  \E c \in Clients :
    \/ SyncReadNodes(c)
    \/ SyncReadEdges(c)
    \/ RemoveNode(c)
    \/ RemoveEdges(c)
    \/ LoadMap(c)
    \/ NodeFind(c)
    \/ NodeSave(c)
    \/ CascadeEdges(c)
    \/ MapSave(c)
    \/ NextSequence(c)
    \/ LogSave(c)

SpecSync == InitSync /\ [][NextSync]_vars

\* ------------------------------------------------------------ graph predicates

ActivePairs(E) == {<<E[i].source, E[i].target>> : i \in ActiveEdges(E)}

RECURSIVE ReachSet(_, _)
ReachSet(R, S) ==
  LET S2 == S \cup {p[2] : p \in {q \in R : q[1] \in S}}
  IN  IF S2 = S THEN S ELSE ReachSet(R, S2)

HasDirectedCycle(R) == \E p \in R : p[1] \in ReachSet(R, {p[2]})

StrictlyBefore(a, b) ==
  /\ \A u \in Clients : a[u] <= b[u]
  /\ \E u \in Clients : a[u] < b[u]

Concurrent(a, b) ==
  /\ \E u \in Clients : a[u] < b[u]
  /\ \E u \in Clients : a[u] > b[u]

PointwiseMax(a, b) == [u \in Clients |-> IF a[u] >= b[u] THEN a[u] ELSE b[u]]

\* ------------------------------------------------------------ live collaboration
\* Two connected clients edit the default map through the live handlers. A
\* client changes its own store and emits the event; the server handler
\* persists it and broadcasts it to the other clients; a receiving client
\* applies the remote action. Events of one socket are handled in order.
ServerId(i) == [by |-> "server", n |-> i]

NoEdgeId == [by |-> "none", n |-> 0]

Msg(event, nodeId, label, source, target, edgeId) ==
  [event |-> event, nodeId |-> nodeId, label |-> label,
   source |-> source, target |-> target, edgeId |-> edgeId]

\* frontendNodes / frontendEdges of sync:response: the non-deleted documents
ServerNodes ==
  [n \in NodeIds |-> IF ActiveNode(nodes, n)
                     THEN [present |-> TRUE, label |-> nodes[n].label]
                     ELSE NoStoreNode]

ServerEdges ==
  {[id |-> ServerId(i), source |-> edges[i].source, target |-> edges[i].target] :
     i \in ActiveEdges(edges)}

\* hasCycle(nodes, edges, newEdge): a depth-first search from every node of
\* the store over the store's edges and the new one
hasCycle(S, E, newEdge) ==
  LET R == {<<e.source, e.target>> : e \in E \cup {newEdge}}
      seen == ReachSet(R, {n \in NodeIds : S[n].present})
  IN  \E p \in R : p[1] \in seen /\ p[1] \in ReachSet(R, {p[2]})

Emit(c, m) == [toServer EXCEPT ![c] = Append(@, m)]

\* socket.broadcast.emit: every client but the sender
Broadcast(c, m) == [o \in Clients |-> IF o = c THEN toClient[o] ELSE Append(toClient[o], m)]

Handled(c) == [toServer EXCEPT ![c] = Tail(@)]

Received(c) == [toClient EXCEPT ![c] = Tail(@)]

serverVars == <<nodes, edges, map, opLog, sequence, last, script, calls, response, procs>>

\* ---- the store's local actions
LocalUpdateNode(c, id, label) ==
  /\ steps < MaxSteps
  /\ stores[c].nodes[id].present
  /\ stores' = [stores EXCEPT ![c].nodes[id].label = label]
  /\ toServer' = Emit(c, Msg("node:update", id, label, NoId, NoId, NoEdgeId))
  /\ steps' = steps + 1
  /\ UNCHANGED <<serverVars, toClient, sessionVars, health>>

LocalRemoveNode(c, id) ==
  /\ steps < MaxSteps
  /\ stores[c].nodes[id].present
  /\ stores' = [stores EXCEPT
       ![c].nodes[id] = NoStoreNode,
       ![c].edges = {e \in @ : e.source # id /\ e.target # id}]
  /\ toServer' = Emit(c, Msg("node:remove", id, NoLabel, NoId, NoId, NoEdgeId))
  /\ steps' = steps + 1
  /\ UNCHANGED <<serverVars, toClient, sessionVars, health>>

LocalAddEdge(c, source, target) ==
  LET newEdge == [id |-> [by |-> c, n |-> stores[c].created + 1],
                  source |-> source, target |-> target]
  IN
  /\ steps < MaxSteps
  /\ stores[c].nodes[source].present /\ stores[c].nodes[target].present
  /\ source # target
  /\ ~\E e \in stores[c].edges :
        \/ e.source = source /\ e.target = target
        \/ e.source = target /\ e.target = source
  /\ ~hasCycle(stores[c].nodes, stores[c].edges, newEdge)
  /\ stores' = [stores EXCEPT ![c].edges = @ \cup {newEdge}, ![c].created = @ + 1]
  /\ toServer' = Emit(c, Msg("edge:add", NoId, NoLabel, source, target, NoEdgeId))
  /\ steps' = steps + 1
  /\ UNCHANGED <<serverVars, toClient, sessionVars, health>>

LocalRemoveEdge(c) ==
  /\ steps < MaxSteps
  /\ \E id \in {e.id : e \in stores[c].edges} :
       /\ stores' = [stores EXCEPT ![c].edges = {e \in @ : e.id # id}]
       /\ toServer' = Emit(c, Msg("edge:remove", NoId, NoLabel, NoId, NoId, id))
  /\ steps' = steps + 1
  /\ UNCHANGED <<serverVars, toClient, sessionVars, health>>

\* ---- the server's handlers, each run without interleaving
OnNodeUpdate(c) ==
  /\ toServer[c] # <<>> /\ Head(toServer[c]).event = "node:update"
  /\ LET m == Head(toServer[c]) IN
     /\ nodes' = IF nodes[m.nodeId].present
                 THEN [nodes EXCEPT ![m.nodeId].label = m.label] ELSE nodes
     /\ toClient' = Broadcast(c, m)
  /\ toServer' = Handled(c)
  /\ UNCHANGED <<edges, map, opLog, sequence, last, steps, script, calls, response, procs, stores, sessionVars, health>>

OnNodeRemove(c) ==
  /\ toServer[c] # <<>> /\ Head(toServer[c]).event = "node:remove"
  /\ LET m == Head(toServer[c]) IN
     /\ nodes' = IF nodes[m.nodeId].present
                 THEN [nodes EXCEPT ![m.nodeId].isDeleted = TRUE] ELSE nodes
     /\ edges' = [i \in 1..Len(edges) |->
                    IF edges[i].source = m.nodeId \/ edges[i].target = m.nodeId
                    THEN [edges[i] EXCEPT !.isDeleted = TRUE] ELSE edges[i]]
     /\ toClient' = Broadcast(c, m)
  /\ toServer' = Handled(c)
  /\ UNCHANGED <<map, opLog, sequence, last, steps, script, calls, response, procs, stores, sessionVars, health>>

OnEdgeAdd(c) ==
  /\ toServer[c] # <<>> /\ Head(toServer[c]).event = "edge:add"
  /\ LET m == Head(toServer[c])
         sourceNode == ActiveNode(nodes, m.source)
         targetNode == ActiveNode(nodes, m.target)
         edgeId == ServerId(Len(edges) + 1)
     IN  IF ~sourceNode \/ ~targetNode
         THEN UNCHANGED <<edges, toClient>>
         ELSE /\ edges' = Append(edges, [source |-> m.source, target |-> m.target,
                                         isDeleted |-> FALSE])
              /\ toClient' = Broadcast(c, [m EXCEPT !.edgeId = edgeId])
  /\ toServer' = Handled(c)
  /\ UNCHANGED <<nodes, map, opLog, sequence, last, steps, script, calls, response, procs, stores, sessionVars, health>>

OnEdgeRemove(c) ==
  /\ toServer[c] # <<>> /\ Head(toServer[c]).event = "edge:remove"
  /\ LET m == Head(toServer[c]) IN
     /\ edges' = IF m.edgeId.by = "server" /\ m.edgeId.n \in 1..Len(edges)
                 THEN [edges EXCEPT ![m.edgeId.n].isDeleted = TRUE] ELSE edges
     /\ toClient' = Broadcast(c, m)
  /\ toServer' = Handled(c)
  /\ UNCHANGED <<nodes, map, opLog, sequence, last, steps, script, calls, response, procs, stores, sessionVars, health>>

\* ---- the store's remote actions
RecvNodeUpdate(c) ==
  /\ toClient[c] # <<>> /\ Head(toClient[c]).event = "node:update"
  /\ LET m == Head(toClient[c]) IN
     stores' = IF stores[c].nodes[m.nodeId].present
               THEN [stores EXCEPT ![c].nodes[m.nodeId].label = m.label] ELSE stores
  /\ toClient' = Received(c)
  /\ UNCHANGED <<serverVars, steps, toServer, sessionVars, health>>

RecvNodeRemove(c) ==
  /\ toClient[c] # <<>> /\ Head(toClient[c]).event = "node:remove"
  /\ LET m == Head(toClient[c]) IN
     stores' = [stores EXCEPT
       ![c].nodes[m.nodeId] = NoStoreNode,
       ![c].edges = {e \in @ : e.source # m.nodeId /\ e.target # m.nodeId}]
  /\ toClient' = Received(c)
  /\ UNCHANGED <<serverVars, steps, toServer, sessionVars, health>>

RecvEdgeAdd(c) ==
  /\ toClient[c] # <<>> /\ Head(toClient[c]).event = "edge:add"
  /\ LET m == Head(toClient[c])
         edge == [id |-> m.edgeId, source |-> m.source, target |-> m.target]
     IN  stores' = IF \E e \in stores[c].edges : e.id = edge.id THEN stores
                   ELSE [stores EXCEPT ![c].edges = @ \cup {edge}]
  /\ toClient' = Received(c)
  /\ UNCHANGED <<serverVars, steps, toServer, sessionVars, health>>

RecvEdgeRemove(c) ==
  /\ toClient[c] # <<>> /\ Head(toClient[c]).event = "edge:remove"
  /\ LET m == Head(toClient[c]) IN
     stores' = [stores EXCEPT ![c].edges = {e \in @ : e.id # m.edgeId}]
  /\ toClient' = Received(c)
  /\ UNCHANGED <<serverVars, steps, toServer, sessionVars, health>>

\* Both clients connected and synchronised (sync:response) with the stored map.
InitLive ==
  /\ NoSessions
  /\ MonitorIdle
  /\ nodes = [n \in NodeIds |-> LiveNode(NewNodeLabel)]
  /\ edges \in {<<>>, <<[source |-> "n1", target |-> "n2", isDeleted |-> FALSE]>>}
  /\ map = NoMap
  /\ opLog = <<>>
  /\ sequence = 0
  /\ response = NoResponse
  /\ last = NoCall
  /\ steps = 0
  /\ script = <<>>
  /\ calls = <<>>
  /\ procs = [c \in Clients |-> NoProc]
  /\ stores = [c \in Clients |-> [nodes |-> ServerNodes, edges |-> ServerEdges, created |-> 0]]
  /\ toServer = [c \in Clients |-> <<>>]
  /\ toClient = [c \in Clients |-> <<>>]

NextLive ==
  \E c \in Clients :
    \/ \E id \in NodeIds, label \in Labels : LocalUpdateNode(c, id, label)
    \/ \E id \in NodeIds : LocalRemoveNode(c, id)
    \/ \E source \in NodeIds, target \in NodeIds : LocalAddEdge(c, source, target)
    \/ LocalRemoveEdge(c)
    \/ OnNodeUpdate(c)
    \/ OnNodeRemove(c)
    \/ OnEdgeAdd(c)
    \/ OnEdgeRemove(c)
    \/ RecvNodeUpdate(c)
    \/ RecvNodeRemove(c)
    \/ RecvEdgeAdd(c)
    \/ RecvEdgeRemove(c)

SpecLive == InitLive /\ [][NextLive]_vars

Quiescent == \A c \in Clients : toServer[c] = <<>> /\ toClient[c] = <<>>

\* ------------------------------------------------------------ sessions and maps
\* Connected sessions join map rooms and submit operations; each handler runs
\* without interleaving. A live event carries no map id: it is meant for the
\* map its session has joined (the default map when it has joined none).
SessionMsg(event, from, reason) == [event |-> event, from |-> from, reason |-> reason]

NoReason == ""

Submission(handler, c, mapId, accepted) ==
  [handler |-> handler, client |-> c, mapId |-> mapId, accepted |-> accepted]

mapOf(c) == IF socketMapId[c] = NoId THEN DEFAULT_MAP_ID ELSE socketMapId[c]

\* socket.emit
EmitTo(c, m) == [toClient EXCEPT ![c] = Append(@, m)]

\* socket.to(`map:${mapId}`).emit: the members of the room but the sender
BroadcastToRoom(c, mapId, m) ==
  [o \in Clients |-> IF o # c /\ mapId \in rooms[o] THEN Append(toClient[o], m)
                     ELSE toClient[o]]

JoinMap(c) ==
  /\ steps < MaxSteps
  /\ \E mapId \in MapIds :
       /\ rooms' = [rooms EXCEPT ![c] = @ \cup {mapId}]
       /\ socketMapId' = [socketMapId EXCEPT ![c] = mapId]
       /\ toClient' = EmitTo(c, SessionMsg("joined-map", c, NoReason))
  /\ steps' = steps + 1
  /\ UNCHANGED <<serverVars, stores, toServer, otherMap, health>>

LeaveMap(c) ==
  /\ \E mapId \in rooms[c] : rooms' = [rooms EXCEPT ![c] = @ \ {mapId}]
  /\ UNCHANGED <<serverVars, steps, clientVars, socketMapId, otherMap, health>>

\* socket.on('node:add'): thrown is a failure of the store; the save also
\* throws when a document with the nodeId exists in any map
OnNodeAdd(c) ==
  /\ steps < MaxSteps
  /\ \E id \in NodeIds, thrown \in BOOLEAN :
       IF thrown \/ nodes[id].present \/ otherMap.nodes[id].present
       THEN /\ toClient' = EmitTo(c, SessionMsg("error", c, "save failed"))
            /\ last' = Submission("node:add", c, mapOf(c), FALSE)
            /\ nodes' = nodes
       ELSE /\ nodes' = [nodes EXCEPT ![id] = LiveNode(NewNodeLabel)]
            /\ toClient' = Broadcast(c, SessionMsg("node:add", c, NoReason))
            /\ last' = Submission("node:add", c, mapOf(c), TRUE)
  /\ steps' = steps + 1
  /\ UNCHANGED <<edges, map, opLog, sequence, script, calls, response, procs,
                 stores, toServer, sessionVars, health>>

\* socket.on('node:move'): the position is not part of the stored node here
OnNodeMove(c) ==
  /\ steps < MaxSteps
  /\ \E id \in NodeIds, thrown \in BOOLEAN :
       IF thrown
       THEN /\ toClient' = toClient
            /\ last' = Submission("node:move", c, mapOf(c), FALSE)
       ELSE /\ toClient' = Broadcast(c, SessionMsg("node:move", c, NoReason))
            /\ last' = Submission("node:move", c, mapOf(c), TRUE)
  /\ steps' = steps + 1
  /\ UNCHANGED <<nodes, edges, map, opLog, sequence, script, calls, response, procs,
                 stores, toServer, sessionVars, health>>

SessionOps ==
  [type : {"addNode", "updateNode"}, nodeId : {"n1"}, label : {"A"},
   from : {NoId}, to : {NoId}, vc : SomeVC]

\* socket.on('editOperation'): merge(op) on the map op.mapId names; an invalid
\* operation is answered with the un-awaited rollback(op), which carries no
\* reason when it is sent
OnEditOperation(c) ==
  /\ steps < MaxSteps
  /\ \E op \in SessionOps, mapId \in MapIds :
       LET merged == IF mapId = DEFAULT_MAP_ID
                     THEN mergeOutcome(map, nodes, edges, opLog, sequence, op, "none")
                     ELSE mergeOutcome(otherMap.map, otherMap.nodes, otherMap.edges, otherMap.opLog,
                                       otherMap.sequence, op, "none")
           stored == [map |-> merged.map, nodes |-> merged.nodes, edges |-> merged.edges,
                      opLog |-> merged.opLog, sequence |-> merged.sequence]
       IN
       /\ IF mapId = DEFAULT_MAP_ID
          THEN /\ nodes' = merged.nodes
               /\ edges' = merged.edges
               /\ map' = merged.map
               /\ opLog' = merged.opLog
               /\ sequence' = merged.sequence
               /\ otherMap' = otherMap
          ELSE /\ otherMap' = stored
               /\ UNCHANGED <<nodes, edges, map, opLog, sequence>>
       /\ toClient' =
            IF ~merged.valid THEN EmitTo(c, SessionMsg("rollback", c, NoReason))
            ELSE IF socketMapId[c] # NoId
            THEN BroadcastToRoom(c, socketMapId[c], SessionMsg("remoteUpdate", c, NoReason))
            ELSE Broadcast(c, SessionMsg("remoteUpdate", c, NoReason))
       /\ last' = Submission("editOperation", c, mapId, merged.valid)
  /\ steps' = steps + 1
  /\ UNCHANGED <<script, calls, response, procs, stores, toServer, socketMapId, rooms, health>>

InitSessions ==
  /\ NoSessions
  /\ MonitorIdle
  /\ nodes = [n \in NodeIds |-> AbsentNode]
  /\ edges = <<>>
  /\ map = NoMap
  /\ opLog = <<>>
  /\ sequence = 0
  /\ response = NoResponse
  /\ last = NoCall
  /\ steps = 0
  /\ script = <<>>
  /\ calls = <<>>
  /\ procs = [c \in Clients |-> NoProc]
  /\ ClientsIdle

NextSessions ==
  \E c \in Clients :
    \/ JoinMap(c)
    \/ LeaveMap(c)
    \/ OnNodeAdd(c)
    \/ OnNodeMove(c)
    \/ OnEditOperation(c)

SpecSessions == InitSessions /\ [][NextSessions]_vars

\* ------------------------------------------------------------ graph helpers and validator
\* utils/graphHelpers.js and GraphValidator._validateAddEdge on a stored map
\* of three nodes, next to merge of an addEdge on the same map.
GraphNodes == {"1", "2", "3"}

\* for (const nodeId in adjList): integer-like keys come in ascending order
KeyOrder == <<"1", "2", "3">>

Range(f) == {f[i] : i \in DOMAIN f}

buildAdjacencyList(N, E) ==
  [n \in {m \in DOMAIN N : ActiveNode(N, m)} |->
     LET out(e) == ~e.isDeleted /\ e.source = n
         sel == SelectSeq(E, out)
     IN  [i \in 1..Len(sel) |-> sel[i].target]]

\* built inside wouldCreateCycle from the keys and entries of adjList; edges
\* whose target is no key are skipped
buildReverseAdjacencyList(adjList) ==
  [n \in DOMAIN adjList |-> {m \in DOMAIN adjList : n \in Range(adjList[m])}]

RECURSIVE findAncestorsFrom(_, _)
findAncestorsFrom(reverseAdjList, ancestors) ==
  LET more == ancestors \cup UNION {reverseAdjList[a] : a \in ancestors \cap DOMAIN reverseAdjList}
  IN  IF more = ancestors THEN ancestors ELSE findAncestorsFrom(reverseAdjList, more)

findAncestors(reverseAdjList, nodeId) ==
  IF nodeId \in DOMAIN reverseAdjList
  THEN findAncestorsFrom(reverseAdjList, reverseAdjList[nodeId])
  ELSE {}

wouldCreateCycle(adjList, sourceId, targetId) ==
  targetId \in findAncestors(buildReverseAdjacencyList(adjList), sourceId)

NoCycle == <<>>

indexOf(path, nodeId) == CHOOSE i \in 1..Len(path) : path[i] = nodeId

\* dfs of detectCycle: path holds the recursion stack in order; the answer is
\* the cycle found (NoCycle for null) and the nodes visited so far
RECURSIVE dfs(_, _, _, _)
RECURSIVE dfsNeighbors(_, _, _, _)
dfsNeighbors(adjList, neighbors, visited, path) ==
  IF neighbors = <<>> THEN [cycle |-> NoCycle, visited |-> visited]
  ELSE LET neighbor == Head(neighbors) IN
       IF neighbor \notin visited
       THEN LET found == dfs(adjList, neighbor, visited, path) IN
            IF found.cycle # NoCycle THEN found
            ELSE dfsNeighbors(adjList, Tail(neighbors), found.visited, path)
       ELSE IF neighbor \in Range(path)
       THEN [cycle |-> SubSeq(path, indexOf(path, neighbor), Len(path)), visited |-> visited]
       ELSE dfsNeighbors(adjList, Tail(neighbors), visited, path)

dfs(adjList, nodeId, visited, path) ==
  IF nodeId \notin DOMAIN adjList THEN [cycle |-> NoCycle, visited |-> visited]
  ELSE dfsNeighbors(adjList, adjList[nodeId], visited \cup {nodeId}, Append(path, nodeId))

RECURSIVE detectCycleFrom(_, _, _)
detectCycleFrom_FirstKeyOnly(adjList, keys, visited) ==
  IF keys = <<>> \/ Head(keys) \notin DOMAIN adjList THEN NoCycle
  ELSE dfs(adjList, Head(keys), visited, <<>>).cycle

detectCycleFrom(adjList, keys, visited) ==
  IF keys = <<>> THEN NoCycle
  ELSE IF Head(keys) \in visited \/ Head(keys) \notin DOMAIN adjList
  THEN detectCycleFrom(adjList, Tail(keys), visited)
  ELSE LET found == dfs(adjList, Head(keys), visited, <<>>) IN
       IF found.cycle # NoCycle THEN found.cycle
       ELSE detectCycleFrom(adjList, Tail(keys), found.visited)

detectCycle(adjList) == detectCycleFrom(adjList, KeyOrder, {})

\* GraphValidator._validateAddEdge for an edge id no stored edge has
validateAddEdge(N, E, sourceId, targetId) ==
  LET source == ActiveNode(N, sourceId)
      target == ActiveNode(N, targetId)
      adjList == buildAdjacencyList(N, E)
      withEdge == [adjList EXCEPT ![sourceId] = Append(@, targetId)]
      cycle == IF source /\ target THEN detectCycle(withEdge) ELSE NoCycle
      errors == (IF source THEN {} ELSE {"SOURCE_NOT_FOUND"})
                \cup (IF target THEN {} ELSE {"TARGET_NOT_FOUND"})
                \cup (IF sourceId = targetId THEN {"SELF_LOOP"} ELSE {})
                \cup (IF cycle # NoCycle THEN {"WOULD_CREATE_CYCLE"} ELSE {})
  IN  [valid |-> errors = {}, errors |-> errors, cycle |-> cycle]

\* POST /:mapId/validate/operation with an ADD_EDGE operation
ValidateOperation ==
  /\ \E sourceId \in GraphNodes, targetId \in GraphNodes :
       LET validation == validateAddEdge(nodes, edges, sourceId, targetId) IN
       response' = [kind |-> "validate", sourceId |-> sourceId, targetId |-> targetId,
                    valid |-> validation.valid, errors |-> validation.errors,
                    cycle |-> validation.cycle]
  /\ UNCHANGED <<nodes, edges, map, opLog, sequence, last, steps, script, calls, procs,
                 clientVars, sessionVars, health>>

\* POST /api/graphs/:mapId/edge/check-cycle
CheckCycle ==
  /\ \E sourceId \in GraphNodes, targetId \in GraphNodes :
       response' = [kind |-> "checkCycle", sourceId |-> sourceId, targetId |-> targetId,
                    wouldCreateCycle |->
                      wouldCreateCycle(buildAdjacencyList(nodes, edges), sourceId, targetId)]
  /\ UNCHANGED <<nodes, edges, map, opLog, sequence, last, steps, script, calls, procs,
                 clientVars, sessionVars, health>>

GraphPairs == GraphNodes \X GraphNodes

GraphEdgeLists ==
  {<<>>} \cup {<<ActiveEdge(p[1], p[2])>> : p \in GraphPairs}
  \cup {<<ActiveEdge(pq[1][1], pq[1][2]), ActiveEdge(pq[2][1], pq[2][2])>> :
          pq \in {x \in GraphPairs \X GraphPairs : x[1] # x[2]}}

GraphOps ==
  [type : {"addEdge"}, nodeId : {NoId}, label : {NoLabel},
   from : GraphNodes, to : GraphNodes, vc : {ZeroVC}]

\* A stored map of three nodes and up to two edges, and one addEdge to merge.
InitGraph ==
  /\ NoSessions
  /\ MonitorIdle
  /\ nodes = [n \in GraphNodes |-> LiveNode(NewNodeLabel)]
  /\ edges \in GraphEdgeLists
  /\ map = NoMap
  /\ opLog = <<>>
  /\ sequence = 0
  /\ response = NoResponse
  /\ last = NoCall
  /\ steps = 0
  /\ \E op \in GraphOps : script = <<op>>
  /\ calls = <<>>
  /\ procs = [c \in Clients |-> NoProc]
  /\ ClientsIdle

NextGraph ==
  \/ SubmitNext
  \/ ValidateOperation
  \/ CheckCycle

SpecGraph == InitGraph /\ [][NextGraph]_vars

\* ------------------------------------------------------------ health monitor
\* HealthMonitor and the mongoose connection it watches. reachable says
\* whether the database answers; while it does not, the connection can drop,
\* raise an error, or stay open with pings failing.
simulateFailover(h) == [h EXCEPT !.isPrimary = FALSE]

triggerFailover(h) ==
  IF h.isHealthy /\ ~h.failoverTriggered
  THEN simulateFailover([h EXCEPT !.isHealthy = FALSE, !.failoverTriggered = TRUE,
                                  !.logged = <<"SERVICE UNHEALTHY">>])
  ELSE h

recordFailure(h) ==
  IF h.failoverTriggered THEN h
  ELSE LET counted == [h EXCEPT !.failureCount = @ + 1,
                               !.logged = <<"Health check failed", h.failureCount + 1,
                                            unhealthyThreshold>>] IN
       IF counted.failureCount >= maxFailures
       THEN IF counted.isHealthy
            THEN simulateFailover([counted EXCEPT !.isHealthy = FALSE,
                                                  !.failoverTriggered = TRUE,
                                                  !.logged = <<"SERVICE UNHEALTHY">>])
            ELSE counted
       ELSE IF counted.failureCount >= unhealthyThreshold
       THEN triggerFailover(counted)
       ELSE counted

\* checkHealth past the throttle: the monitor's own calls are seconds apart
checkHealth(h) ==
  IF h.readyState # "connected" THEN recordFailure(h)
  ELSE IF ~h.reachable THEN recordFailure(h)
  ELSE LET reset == [h EXCEPT !.failureCount = 0] IN
       IF ~reset.isHealthy
       THEN [reset EXCEPT !.isHealthy = TRUE, !.logged = <<"Service recovered">>]
       ELSE reset

MonitorFrame ==
  UNCHANGED <<nodes, edges, map, opLog, sequence, last, steps, script, calls, response,
              procs, clientVars, sessionVars>>

StartMonitoring ==
  /\ ~health.started
  /\ health' = [health EXCEPT !.started = TRUE, !.monitoring = TRUE, !.initialCheck = TRUE,
                              !.logged = <<"Health monitoring active">>]
  /\ MonitorFrame

\* the setTimeout of startMonitoring
InitialCheck ==
  /\ health.initialCheck
  /\ health' = checkHealth([health EXCEPT !.initialCheck = FALSE])
  /\ MonitorFrame

\* the setInterval of startMonitoring
IntervalCheck ==
  /\ health.monitoring
  /\ health' = IF health.failoverTriggered
               THEN [health EXCEPT !.monitoring = FALSE]
               ELSE checkHealth(health)
  /\ MonitorFrame

\* mongoose.connection.on('connected')
OnConnected ==
  /\ health.reachable /\ health.readyState = "disconnected"
  /\ LET h == [health EXCEPT !.readyState = "connected", !.failureCount = 0] IN
     health' = IF ~h.isHealthy
               THEN [h EXCEPT !.isHealthy = TRUE, !.logged = <<"Service recovered (via event)">>]
               ELSE h
  /\ MonitorFrame

\* mongoose.connection.on('disconnected')
OnDisconnected ==
  /\ ~health.reachable /\ health.readyState = "connected"
  /\ health' = recordFailure([health EXCEPT !.readyState = "disconnected"])
  /\ MonitorFrame

\* mongoose.connection.on('error')
OnError ==
  /\ ~health.reachable
  /\ health' = recordFailure(health)
  /\ MonitorFrame

\* GET /health: getStatus()
GetStatus ==
  /\ response' = [kind |-> "health", healthy |-> health.isHealthy,
                  isPrimary |-> health.isPrimary,
                  database |-> health.readyState = "connected",
                  failureCount |-> health.failureCount]
  /\ UNCHANGED <<nodes, edges, map, opLog, sequence, last, steps, script, calls, procs,
                 clientVars, sessionVars, health>>

DatabaseDown ==
  /\ health.reachable
  /\ health' = [health EXCEPT !.reachable = FALSE]
  /\ MonitorFrame

DatabaseUp ==
  /\ ~health.reachable
  /\ health' = [health EXCEPT !.reachable = TRUE]
  /\ MonitorFrame

\* The monitor is constructed while mongoose is still connecting or once it
\* has connected, with the database answering or not.
InitHealth ==
  /\ NoSessions
  /\ \E readyState \in {"connected", "disconnected"}, reachable \in BOOLEAN :
       /\ readyState = "connected" => reachable
       /\ health = [NoMonitor EXCEPT !.readyState = readyState, !.reachable = reachable]
  /\ nodes = [n \in NodeIds |-> AbsentNode]
  /\ edges = <<>>
  /\ map = NoMap
  /\ opLog = <<>>
  /\ sequence = 0
  /\ response = NoResponse
  /\ last = NoCall
  /\ steps = 0
  /\ script = <<>>
  /\ calls = <<>>
  /\ procs = [c \in Clients |-> NoProc]
  /\ ClientsIdle

NextHealth ==
  \/ StartMonitoring
  \/ InitialCheck
  \/ IntervalCheck
  \/ OnConnected
  \/ OnDisconnected
  \/ OnError
  \/ GetStatus
  \/ DatabaseDown
  \/ DatabaseUp

SpecHealth == InitHealth /\ [][NextHealth]_vars

\* The timers fire and mongoose reconnects while the database answers.
SpecHealthLive ==
  /\ SpecHealth
  /\ WF_vars(StartMonitoring)
  /\ WF_vars(InitialCheck)
  /\ WF_vars(IntervalCheck)
  /\ WF_vars(OnConnected)

\* ------------------------------------------------------------ graph queries
\* GraphController.detectCycles, findOrphans and getComponents on a stored map
\* of three nodes, some of them soft-deleted. Node.find hands the live nodes
\* over in an order the database chooses.
Listings == {order \in [1..3 -> GraphNodes] : \A i, j \in 1..3 : order[i] = order[j] => i = j}

\* Node.find({ mapId, isDeleted: false })
findNodes(N, order) ==
  LET live(n) == ActiveNode(N, n) IN SelectSeq(order, live)

\* the directed graph an adjacency list stands for
AdjPairs(adjList) == UNION {{<<n, m>> : m \in Range(adjList[n])} : n \in DOMAIN adjList}

\* buildReverseAdjacencyList(nodes, edges): the parents of every listed node
reverseAdjacencyList(N, E) ==
  [n \in {m \in DOMAIN N : ActiveNode(N, m)} |->
     LET into(e) == ~e.isDeleted /\ e.target = n
         sel == SelectSeq(E, into)
     IN  [i \in 1..Len(sel) |-> sel[i].source]]

findRootNodes(listing, N, reverseAdjList) ==
  LET root(n) == ~N[n].isDeleted /\ Len(reverseAdjList[n]) = 0
  IN  SelectSeq(listing, root)

\* the BFS loop of findOrphanedNodes: the set reachable once the queue is empty
RECURSIVE bfsReachable(_, _, _)
bfsReachable_RootsOnly(adjList, queue, reachable) == reachable \cup Range(queue)

bfsReachable(adjList, queue, reachable) ==
  IF queue = <<>> THEN reachable
  ELSE LET current == Head(queue)
           added == reachable \cup {current}
           fresh(child) == child \notin added
           children == IF current \in DOMAIN adjList
                       THEN SelectSeq(adjList[current], fresh) ELSE <<>>
       IN  bfsReachable(adjList, Tail(queue) \o children, added)

findOrphanedNodes(listing, N, adjList, rootIds) ==
  LET reachable == bfsReachable(adjList, rootIds, {})
      orphan(n) == ~N[n].isDeleted /\ n \notin reachable
  IN  SelectSeq(listing, orphan)

\* the inner dfs of getConnectedComponents: follows adjList, that is the
\* outgoing edges only
RECURSIVE componentDfs(_, _, _, _)
RECURSIVE componentNeighbors(_, _, _, _)
componentNeighbors(adjList, neighbors, visited, component) ==
  IF neighbors = <<>> THEN [visited |-> visited, component |-> component]
  ELSE IF Head(neighbors) \notin visited
  THEN LET sub == componentDfs(adjList, Head(neighbors), visited, component)
       IN  componentNeighbors(adjList, Tail(neighbors), sub.visited, sub.component)
  ELSE componentNeighbors(adjList, Tail(neighbors), visited, component)

componentDfs(adjList, nodeId, visited, component) ==
  componentNeighbors(adjList,
                     IF nodeId \in DOMAIN adjList THEN adjList[nodeId] ELSE <<>>,
                     visited \cup {nodeId}, Append(component, nodeId))

RECURSIVE componentsFrom(_, _, _, _, _)
componentsFrom(listing, N, adjList, visited, components) ==
  IF listing = <<>> THEN components
  ELSE IF Head(listing) \notin visited /\ ~N[Head(listing)].isDeleted
  THEN LET sub == componentDfs(adjList, Head(listing), visited, <<>>)
       IN  componentsFrom(Tail(listing), N, adjList, sub.visited,
                          Append(components, sub.component))
  ELSE componentsFrom(Tail(listing), N, adjList, visited, components)

getConnectedComponents(listing, N, adjList) == componentsFrom(listing, N, adjList, {}, <<>>)

QueryFrame ==
  UNCHANGED <<nodes, edges, map, opLog, sequence, last, steps, script, calls, procs,
              clientVars, sessionVars, health>>

\* GET /api/graphs/:mapId/cycles
DetectCycles ==
  /\ LET cycle == detectCycle(buildAdjacencyList(nodes, edges)) IN
     response' = [kind |-> "cycles", hasCycle |-> cycle # NoCycle, cycle |-> cycle]
  /\ QueryFrame

\* GET /api/graphs/:mapId/orphans
FindOrphans ==
  /\ \E order \in Listings :
       LET listing == findNodes(nodes, order)
           adjList == buildAdjacencyList(nodes, edges)
           rootIds == findRootNodes(listing, nodes, reverseAdjacencyList(nodes, edges))
       IN  response' = [kind |-> "orphans", listing |-> listing, rootIds |-> rootIds,
                        orphans |-> findOrphanedNodes(listing, nodes, adjList, rootIds)]
  /\ QueryFrame

\* GET /api/graphs/:mapId/components
GetComponents ==
  /\ \E order \in Listings :
       LET listing == findNodes(nodes, order) IN
       response' = [kind |-> "components", listing |-> listing,
                    components |-> getConnectedComponents(listing, nodes,
                                     buildAdjacencyList(nodes, edges))]
  /\ QueryFrame

SoftDeleted(label) == [LiveNode(label) EXCEPT !.isDeleted = TRUE]

QueryEdgeLists ==
  GraphEdgeLists
  \cup {<<ActiveEdge(t[1][1], t[1][2]), ActiveEdge(t[2][1], t[2][2]), ActiveEdge(t[3][1], t[3][2])>> :
          t \in {x \in GraphPairs \X GraphPairs \X GraphPairs :
                   x[1] # x[2] /\ x[1] # x[3] /\ x[2] # x[3]}}

\* A stored map of three nodes, live or soft-deleted, and up to three edges.
InitQueries ==
  /\ NoSessions
  /\ MonitorIdle
  /\ nodes \in [GraphNodes -> {LiveNode(NewNodeLabel), SoftDeleted(NewNodeLabel)}]
  /\ edges \in QueryEdgeLists
  /\ map = NoMap
  /\ opLog = <<>>
  /\ sequence = 0
  /\ response = NoResponse
  /\ last = NoCall
  /\ steps = 0
  /\ script = <<>>
  /\ calls = <<>>
  /\ procs = [c \in Clients |-> NoProc]
  /\ ClientsIdle

NextQueries ==
  \/ DetectCycles
  \/ FindOrphans
  \/ GetComponents

SpecQueries == InitQueries /\ [][NextQueries]_vars

\* ------------------------------------------------------------ clock algebra
\* VectorClockService and compareVectorClocks applied to two clocks held by a
\* caller; script holds the two clocks as they are after each call.
SparseClocks == UNION {[S -> 0..MaxClock] : S \in SUBSET Clients}

ClockFrame ==
  UNCHANGED <<nodes, edges, map, opLog, sequence, last, steps, calls, procs,
              clientVars, sessionVars, health>>

Compare ==
  /\ response' = [kind |-> "compare", clock1 |-> script[1], clock2 |-> script[2],
                  forward |-> compare(script[1], script[2]),
                  backward |-> compare(script[2], script[1])]
  /\ UNCHANGED script
  /\ ClockFrame

CompareVectorClocks ==
  /\ response' = [kind |-> "compareVectorClocks", currentVC |-> script[1],
                  incomingVC |-> script[2],
                  result |-> compareVectorClocks(script[1], script[2])]
  /\ UNCHANGED script
  /\ ClockFrame

\* merge copies clock1 into a new Map and writes to the copy only
MergeClocks ==
  /\ script' = script
  /\ response' = [kind |-> "merge", clock1 |-> script[1], clock2 |-> script[2],
                  merged |-> vectorClockService_merge(script[1], script[2]),
                  swapped |-> vectorClockService_merge(script[2], script[1]),
                  twice |-> vectorClockService_merge(script[1], script[1]),
                  after |-> script']
  /\ ClockFrame

\* increment writes to the clock it is given
Increment ==
  /\ \E i \in 1..2, clientId \in Clients :
       /\ getSequence(script[i], clientId) < MaxClock
       /\ script' = [script EXCEPT ![i] = increment(@, clientId)]
  /\ UNCHANGED response
  /\ ClockFrame

InitClocks ==
  /\ NoSessions
  /\ MonitorIdle
  /\ nodes = [n \in NodeIds |-> AbsentNode]
  /\ edges = <<>>
  /\ map = NoMap
  /\ opLog = <<>>
  /\ sequence = 0
  /\ response = NoResponse
  /\ last = NoCall
  /\ steps = 0
  /\ script \in SparseClocks \X SparseClocks
  /\ calls = <<>>
  /\ procs = [c \in Clients |-> NoProc]
  /\ ClientsIdle

NextClocks ==
  \/ Compare
  \/ CompareVectorClocks
  \/ MergeClocks
  \/ Increment

SpecClocks == InitClocks /\ [][NextClocks]_vars

\* ------------------------------------------------------------ client store
\* useMindMapStore of one client (X): the local actions, the remote actions
\* the socket listeners call, connect mode, and the undo history. What a local
\* action emits leaves the store as it is and is not followed here. Ids that
\* generateId hands out are taken from LocalIds in order; a node made by
\* another client carries RemoteId.
historyLimit == 50

LocalIds == <<"n1", "n2">>

LocalEdgeIds == <<"e1", "e2", "e3">>

RemoteId == "r1"

StoreIds == Range(LocalIds) \cup {RemoteId}

EmptyStore ==
  [nodes |-> <<>>, edges |-> <<>>, connectMode |-> FALSE, connectSourceId |-> NoId,
   history |-> <<>>, historyIndex |-> -1, created |-> 0, edgesCreated |-> 0]

idsOf(list) == {list[i].id : i \in DOMAIN list}

\* history[historyIndex] of the code is history[historyIndex + 1] here; a
\* snapshot is a JSON round trip of the two lists, whose fields are strings
\* and finite numbers, so it holds the same values
saveToHistory_IndexBeforeShift(s) ==
  LET newHistory == Append(SubSeq(s.history, 1, s.historyIndex + 1),
                           [nodes |-> s.nodes, edges |-> s.edges])
      kept == IF Len(newHistory) > historyLimit THEN Tail(newHistory) ELSE newHistory
  IN  [s EXCEPT !.history = kept, !.historyIndex = Len(newHistory) - 1]

saveToHistory(s) ==
  LET newHistory == Append(SubSeq(s.history, 1, s.historyIndex + 1),
                           [nodes |-> s.nodes, edges |-> s.edges])
      kept == IF Len(newHistory) > historyLimit THEN Tail(newHistory) ELSE newHistory
  IN  [s EXCEPT !.history = kept, !.historyIndex = Len(kept) - 1]

undo(s) ==
  IF s.historyIndex > 0
  THEN LET prevState == s.history[s.historyIndex] IN
       [s EXCEPT !.nodes = prevState.nodes, !.edges = prevState.edges,
                 !.historyIndex = s.historyIndex - 1]
  ELSE s

redo(s) ==
  IF s.historyIndex < Len(s.history) - 1
  THEN LET nextState == s.history[s.historyIndex + 2] IN
       [s EXCEPT !.nodes = nextState.nodes, !.edges = nextState.edges,
                 !.historyIndex = s.historyIndex + 1]
  ELSE s

withNode(list, id, field, value) ==
  [i \in DOMAIN list |-> IF list[i].id = id THEN [list[i] EXCEPT ![field] = value] ELSE list[i]]

withoutNode(s, id) ==
  LET keepNode(n) == n.id # id
      keepEdge(e) == e.source # id /\ e.target # id
  IN  [s EXCEPT !.nodes = SelectSeq(@, keepNode), !.edges = SelectSeq(@, keepEdge)]

withoutEdge(s, id) ==
  LET keepEdge(e) == e.id # id IN [s EXCEPT !.edges = SelectSeq(@, keepEdge)]

addNode(s) ==
  saveToHistory([s EXCEPT !.nodes = Append(@, [id |-> LocalIds[s.created + 1],
                                                label |-> NewNodeLabel, position |-> 0]),
                          !.created = @ + 1])

removeNode(s, id) == saveToHistory(withoutNode(s, id))

updateNode(s, id, label) == saveToHistory([s EXCEPT !.nodes = withNode(@, id, "label", label)])

moveNode(s, id, position) == [s EXCEPT !.nodes = withNode(@, id, "position", position)]

\* hasCycle of the client: a search from the nodes of the list over the
\* edges and the new one
storeHasCycle(nodeList, edgeList, newEdge) ==
  LET R == {<<e.source, e.target>> : e \in Range(edgeList) \cup {newEdge}}
      seen == ReachSet(R, idsOf(nodeList))
  IN  \E p \in R : p[1] \in seen /\ p[1] \in ReachSet(R, {p[2]})

addEdge(s, source, target) ==
  LET edgeExists == \E e \in Range(s.edges) :
                      \/ e.source = source /\ e.target = target
                      \/ e.source = target /\ e.target = source
      newEdge == [id |-> LocalEdgeIds[s.edgesCreated + 1], source |-> source, target |-> target]
  IN  IF source = target \/ edgeExists \/ storeHasCycle(s.nodes, s.edges, newEdge) THEN s
      ELSE saveToHistory([s EXCEPT !.edges = Append(@, newEdge), !.edgesCreated = @ + 1])

removeEdge(s, id) == saveToHistory(withoutEdge(s, id))

addNodeRemote(s, node) ==
  IF node.id \in idsOf(s.nodes) THEN s ELSE [s EXCEPT !.nodes = Append(@, node)]

removeNodeRemote(s, id) == withoutNode(s, id)

updateNodeRemote(s, id, label) == [s EXCEPT !.nodes = withNode(@, id, "label", label)]

moveNodeRemote(s, id, position) == [s EXCEPT !.nodes = withNode(@, id, "position", position)]

addEdgeRemote(s, edge) ==
  IF edge.id \in idsOf(s.edges) THEN s ELSE [s EXCEPT !.edges = Append(@, edge)]

removeEdgeRemote(s, id) == withoutEdge(s, id)

setConnectMode(s, enabled) ==
  [s EXCEPT !.connectMode = enabled,
            !.connectSourceId = IF enabled THEN NoId ELSE @]

\* Node.handleMouseDown in connect mode, on the node the pointer is on
handleMouseDown(s, id) ==
  IF ~s.connectMode THEN s
  ELSE IF s.connectSourceId = NoId THEN [s EXCEPT !.connectSourceId = id]
  ELSE IF s.connectSourceId # id
  THEN [addEdge(s, s.connectSourceId, id) EXCEPT !.connectSourceId = NoId]
  ELSE s

Store == stores["X"]

\* one call on the store; response keeps what kind of call it was
StoreCall(kind, action, next) ==
  /\ stores' = [stores EXCEPT !["X"] = next]
  /\ response' = [kind |-> kind, action |-> action, nodes |-> Store.nodes, edges |-> Store.edges]
  /\ steps' = steps + 1
  /\ UNCHANGED <<nodes, edges, map, opLog, sequence, last, script, calls, procs,
                 toServer, toClient, sessionVars, health>>

AddNode ==
  /\ steps < MaxEdits
  /\ Store.created < Len(LocalIds)
  /\ StoreCall("local", "addNode", addNode(Store))

RemoveNodeLocal ==
  /\ steps < MaxEdits
  /\ \E id \in idsOf(Store.nodes) : StoreCall("local", "removeNode", removeNode(Store, id))

UpdateNode ==
  /\ steps < MaxEdits
  /\ \E id \in idsOf(Store.nodes) : StoreCall("local", "updateNode", updateNode(Store, id, "A"))

MoveNode ==
  /\ steps < MaxEdits
  /\ \E id \in idsOf(Store.nodes) : StoreCall("local", "moveNode", moveNode(Store, id, 1))

\* mouseup at the end of a drag
MouseUp ==
  /\ steps < MaxEdits
  /\ Store.nodes # <<>>
  /\ StoreCall("local", "saveToHistory", saveToHistory(Store))

RemoveEdgeLocal ==
  /\ steps < MaxEdits
  /\ \E id \in idsOf(Store.edges) : StoreCall("local", "removeEdge", removeEdge(Store, id))

SetConnectMode ==
  /\ steps < MaxEdits
  /\ StoreCall("connect", "setConnectMode", setConnectMode(Store, ~Store.connectMode))

MouseDown ==
  /\ steps < MaxEdits
  /\ Store.connectMode
  /\ Store.edgesCreated < Len(LocalEdgeIds)
  /\ \E id \in idsOf(Store.nodes) : StoreCall("local", "handleMouseDown", handleMouseDown(Store, id))

Undo ==
  /\ steps < MaxEdits
  /\ StoreCall("undo", "undo", undo(Store))

Redo ==
  /\ steps < MaxEdits
  /\ StoreCall("redo", "redo", redo(Store))

RemoteNode ==
  /\ steps < MaxEdits
  /\ \/ StoreCall("remote", "addNodeRemote",
                  addNodeRemote(Store, [id |-> RemoteId, label |-> NewNodeLabel, position |-> 0]))
     \/ \E id \in idsOf(Store.nodes) :
          \/ StoreCall("remote", "removeNodeRemote", removeNodeRemote(Store, id))
          \/ StoreCall("remote", "updateNodeRemote", updateNodeRemote(Store, id, "B"))
          \/ StoreCall("remote", "moveNodeRemote", moveNodeRemote(Store, id, 1))

RemoteEdge ==
  /\ steps < MaxEdits
  /\ \/ \E pair \in {p \in StoreIds \X StoreIds : p[1] # p[2]} :
          StoreCall("remote", "addEdgeRemote",
                    addEdgeRemote(Store, [id |-> "re", source |-> pair[1], target |-> pair[2]]))
     \/ \E id \in idsOf(Store.edges) :
          StoreCall("remote", "removeEdgeRemote", removeEdgeRemote(Store, id))

InitStore ==
  /\ NoSessions
  /\ MonitorIdle
  /\ nodes = [n \in NodeIds |-> AbsentNode]
  /\ edges = <<>>
  /\ map = NoMap
  /\ opLog = <<>>
  /\ sequence = 0
  /\ response = NoResponse
  /\ last = NoCall
  /\ steps = 0
  /\ script = <<>>
  /\ calls = <<>>
  /\ procs = [c \in Clients |-> NoProc]
  /\ stores = [c \in Clients |-> IF c = "X" THEN EmptyStore ELSE NoStore]
  /\ toServer = [c \in Clients |-> <<>>]
  /\ toClient = [c \in Clients |-> <<>>]

NextStore ==
  \/ AddNode
  \/ RemoveNodeLocal
  \/ UpdateNode
  \/ MoveNode
  \/ MouseUp
  \/ RemoveEdgeLocal
  \/ SetConnectMode
  \/ MouseDown
  \/ Undo
  \/ Redo
  \/ RemoteNode
  \/ RemoteEdge

SpecStore == InitStore /\ [][NextStore]_vars

\* ------------------------------------------------------------ a long editing session
\* The same store with one node, edited, dragged, undone and redone for as
\* long as it takes the history to fill up and start dropping snapshots.
HistoryCall(kind, action, next) ==
  /\ stores' = [stores EXCEPT !["X"] = next]
  /\ response' = [kind |-> kind, action |-> action]
  /\ UNCHANGED <<nodes, edges, map, opLog, sequence, last, steps, script, calls, procs,
                 toServer, toClient, sessionVars, health>>

FirstNode ==
  /\ Store.created = 0
  /\ HistoryCall("local", "addNode", addNode(Store))

\* the label editor toggles the node between two labels
Relabel ==
  /\ Store.nodes # <<>>
  /\ HistoryCall("local", "updateNode",
                 updateNode(Store, Store.nodes[1].id,
                            IF Store.nodes[1].label = NewNodeLabel THEN "A" ELSE NewNodeLabel))

Drag ==
  /\ Store.nodes # <<>>
  /\ Store.nodes[1].position = 0
  /\ HistoryCall("local", "moveNode", moveNode(Store, Store.nodes[1].id, 1))

UndoKey ==
  \E s \in {Store} : HistoryCall("undo", "undo", undo(s))

RedoKey ==
  \E s \in {Store} : HistoryCall("redo", "redo", redo(s))

NextHistory ==
  \/ FirstNode
  \/ Relabel
  \/ Drag
  \/ UndoKey
  \/ RedoKey

SpecHistory == InitStore /\ [][NextHistory]_vars

\* ------------------------------------------------------------ claims
\* C1: after any sequence of accepted operations the non-deleted edges of the
\* map contain no directed cycle (a self-loop counts as a cycle).
C1_NoActiveCycle == ~HasDirectedCycle(ActivePairs(edges))

\* C6: the map-level check of merge rejects an operation exactly when the
\* operation's clock is strictly before the map's clock; an equal, newer or
\* concurrent clock passes the check.
C6_StaleExactlyWhenBefore ==
  last.handler = "merge" =>
    /\ (last.stage = "stale") <=> StrictlyBefore(last.op.vc, last.mapVCBefore)
    /\ last.stage = "stale" =>
         ~last.valid /\ last.reason = "Outdated edit (older vector clock)"

C6_Witness ==
  /\ last.handler = "merge"
  /\ last.stage = "stale"
  /\ StrictlyBefore(last.op.vc, last.mapVCBefore)

\* C7: an updateNode on a stored, non-deleted node that passed the map-level
\* check is rejected exactly when the node's own clock is strictly after the
\* operation's clock; otherwise the write is applied and the node's clock
\* becomes the per-key maximum of both.
C7_NodeLastWriterWins ==
  (/\ last.handler = "merge"
   /\ last.op.type = "updateNode"
   /\ last.stage # "stale"
   /\ ActiveNode([n \in NodeIds |-> last.nodeBefore], last.op.nodeId)) =>
    LET before == last.nodeBefore.vectorClock
        node == nodes[last.op.nodeId]
    IN  /\ (last.stage = "rejected") <=> StrictlyBefore(last.op.vc, before)
        /\ last.stage = "rejected" => node = last.nodeBefore
        /\ last.stage # "rejected" =>
             /\ node.label = last.op.label
             /\ node.vectorClock = PointwiseMax(before, last.op.vc)

C7_Witness ==
  /\ last.handler = "merge"
  /\ last.op.type = "updateNode"
  /\ last.valid
  /\ Concurrent(last.nodeBefore.vectorClock, last.op.vc)
  /\ nodes[last.op.nodeId].label = last.op.label

\* C9: a merge call that returns valid = false has changed no node, no edge
\* and not the map's clock, version or stats.
C9_InvalidChangesNothing ==
  [][(steps' = steps + 1 /\ ~last'.valid) =>
       (nodes' = nodes /\ edges' = edges /\ map' = map)]_vars

\* C10: no two non-deleted edges of the map join the same unordered pair of
\* nodes.
C10_NoDuplicatePair ==
  \A i, j \in ActiveEdges(edges) :
    i # j => {edges[i].source, edges[i].target} # {edges[j].source, edges[j].target}


\* C8: scenario B. From a map with clock {} holding node n, the updates
\* (n, a, {X:1}) and (n, b, {Y:1}) merged one after the other in either order
\* are both accepted, n ends with the label of the one merged second, and the
\* map clock ends as {X:1, Y:1}.
C8_ScenarioB ==
  (script = <<>> /\ Len(calls) = 2) =>
     /\ calls[1].valid
     /\ calls[2].valid
     /\ nodes[calls[2].op.nodeId].label = calls[2].op.label
     /\ map.vectorClock = [u \in Clients |-> 1]

C8_Witness ==
  /\ script = <<>>
  /\ Len(calls) = 2
  /\ calls[1].op.label # calls[2].op.label
  /\ calls[2].op.vc = ClockOf("X")
  /\ nodes[calls[2].op.nodeId].label = calls[2].op.label

\* C2: when a deleteNode merge and an addEdge merge run concurrently, once
\* both calls have returned every non-deleted edge has two non-deleted
\* endpoints.
C2_NoDanglingEdgeAfterBoth ==
  ( /\ \A c \in Clients : procs[c].pc = "done"
    /\ {procs[c].op.type : c \in Clients} = {"deleteNode", "addEdge"} )
  => \A i \in 1..Len(edges) :
        ~edges[i].isDeleted =>
           ActiveNode(nodes, edges[i].source) /\ ActiveNode(nodes, edges[i].target)

\* C4: under concurrent merges no client's counter in the stored map clock
\* decreases from one persisted state to the next.
C4_MapClockNeverDecreases ==
  [][\A u \in Clients : map'.vectorClock[u] >= map.vectorClock[u]]_vars

\* C3: a completed sync:request snapshot never holds an edge whose endpoint
\* is not among the snapshot's nodes: no reader sees a node deleted while an
\* edge incident to it is still non-deleted.
C3_SnapshotHasNoDanglingEdge ==
  \A c \in Clients :
    (procs[c].op.type = "sync:request" /\ procs[c].pc = "done") =>
       \A e \in procs[c].snapshot.edges :
          /\ \E n \in procs[c].snapshot.nodes : n.id = e.source
          /\ \E n \in procs[c].snapshot.nodes : n.id = e.target

\* C5: convergence. Once nothing emitted is left unhandled or undelivered,
\* every client's nodes (ids and labels) and edges (ids and endpoints) equal
\* the server's non-deleted nodes and edges.
C5_ClientsConverge ==
  Quiescent =>
    \A c \in Clients :
       /\ stores[c].nodes = ServerNodes
       /\ stores[c].edges = ServerEdges

C12_DuplicateAddRejected ==
  (last.handler = "merge" /\ last.op.type = "addNode"
     /\ last.nodeBefore.present /\ ~last.nodeBefore.isDeleted) =>
       /\ ~last.valid
       /\ last.reason \in {"Outdated edit (older vector clock)", "Node already exists"}
       /\ nodes[last.op.nodeId] = last.nodeBefore

\* C13: an update or delete of a node, or a delete of an edge, whose target is
\* not stored or is already soft-deleted is rejected: handling it leaves the
\* stored nodes and edges as they were and broadcasts nothing.
C13_MissingTargetRejected ==
  [][\A c \in Clients :
       (toServer[c] # <<>> /\ toServer'[c] = Tail(toServer[c])) =>
         LET m == Head(toServer[c])
             missing ==
               \/ m.event \in {"node:update", "node:remove"} /\ ~ActiveNode(nodes, m.nodeId)
               \/ m.event = "edge:remove"
                    /\ ~(m.edgeId.by = "server" /\ m.edgeId.n \in ActiveEdges(edges))
         IN  missing => (nodes' = nodes /\ edges' = edges /\ toClient' = toClient)]_vars

C15_OneRecordPerAccepted ==
  [][(steps' = steps + 1) =>
       IF last'.valid
       THEN /\ map'.version = map.version + 1
            /\ Len(opLog') = Len(opLog) + 1
            /\ SubSeq(opLog', 1, Len(opLog)) = opLog
            /\ opLog'[Len(opLog')].status = "applied"
            /\ opLog'[Len(opLog')].type = last'.op.type
       ELSE opLog' = opLog]_vars

C15_Witness ==
  /\ steps = 2
  /\ last.handler = "merge" /\ ~last.valid /\ last.stage = "rejected"
  /\ Len(opLog) = 1 /\ opLog[1].status = "applied"
  /\ map.version = 1

\* C16: the map's stats follow the stored graph: every accepted merge changes
\* stats.nodeCount by the change in the number of non-deleted nodes and
\* stats.edgeCount by the change in the number of non-deleted edges (edges
\* soft-deleted by a deleteNode cascade included).
C16_StatsFollowGraph ==
  [][(steps' = steps + 1 /\ last'.valid) =>
       /\ map'.stats.nodeCount - map.stats.nodeCount
            = Cardinality({n \in NodeIds : ActiveNode(nodes', n)})
              - Cardinality({n \in NodeIds : ActiveNode(nodes, n)})
       /\ map'.stats.edgeCount - map.stats.edgeCount
            = Cardinality(ActiveEdges(edges')) - Cardinality(ActiveEdges(edges))]_vars

\* C17: getOperationsSince(mapId, N) returns exactly the logged operations
\* whose server sequence is greater than N, in ascending sequence order (after
\* 10 accepted operations, since 5 returns the operations 6..10).
C17_SinceReturnsLaterOperations ==
  response.kind = "since" =>
    LET later(r) == r.serverSequence > response.since IN
    /\ response.operations = SelectSeq(opLog, later)
    /\ \A i \in 1..Len(response.operations) :
         response.operations[i].serverSequence = response.since + i

\* C19: the record logged for an accepted updateNode, deleteNode or deleteEdge
\* carries as previousState the state the entity had just before the merge,
\* and the record of an accepted addNode or addEdge carries none.
C19_RecordCarriesPreviousState ==
  [][(last'.valid /\ Len(opLog') = Len(opLog) + 1) =>
       LET operation == opLog'[Len(opLog')] IN
       CASE operation.type \in {"updateNode", "deleteNode"} ->
              /\ hasPreviousState(operation)
              /\ previousStateOf(operation) = nodes[operation.entityId]
         [] operation.type = "deleteEdge" ->
              /\ hasPreviousState(operation)
              /\ previousStateOf(operation) = edges[operation.entityId]
         [] OTHER -> previousStateOf(operation) = AbsentNode]_vars

\* C18: when the rollback service reports success for an accepted updateNode,
\* deleteNode or deleteEdge, the target entity has the field values and the
\* soft-delete flag it had immediately before that operation was merged.
C18_RollbackRestoresEntity ==
  (response.kind = "rollback" /\ response.success) =>
    LET operation == opLog[response.index] IN
    CASE operation.type \in {"updateNode", "deleteNode"} ->
           /\ nodes[operation.entityId].label = last.nodeBefore.label
           /\ nodes[operation.entityId].isDeleted = last.nodeBefore.isDeleted
      [] operation.type = "deleteEdge" -> ~edges[operation.entityId].isDeleted
      [] OTHER -> TRUE

\* C20: a rollback of an operation whose record is already rolled_back, asked
\* of the rollback service or of the HTTP endpoint, answers success = false
\* and changes no node, edge, stats or log record.
C20_SecondRollbackRefused ==
  [][(/\ response' # response
      /\ response'.kind \in {"rollback", "rollbackEndpoint"}
      /\ response'.index \in 1..Len(opLog)
      /\ opLog[response'.index].status = "rolled_back") =>
       /\ ~response'.success
       /\ UNCHANGED <<nodes, edges, map, opLog>>]_vars

\* C21: a rollback, whether it answers success or failure, through the service
\* or through the HTTP endpoint, leaves the map's version counter and the
\* map's vector clock as they were.
C21_RollbackKeepsVersionAndClock ==
  [][(response' # response /\ response'.kind \in {"rollback", "rollbackEndpoint"}) =>
       /\ map'.version = map.version
       /\ map'.vectorClock = map.vectorClock]_vars

C21_Witness ==
  /\ response.kind = "rollback"
  /\ response.success
  /\ map.version > 0
  /\ map.vectorClock # ZeroVC
  /\ opLog[response.index].status = "rolled_back"

\* C22: rollback of an accepted operation followed at once by a fresh merge of
\* an operation with the same type, target and data: the merge is accepted
\* and the entity is in the state it had right after the original merge.
C22_ReversalThenMergeReproduces ==
  [][(response = NoResponse /\ response'.kind = "reversal" /\ response'.success) =>
       LET op == last'.op IN
       /\ last'.valid
       /\ IF op.nodeId \in NodeIds
          THEN /\ nodes'[op.nodeId].present = nodes[op.nodeId].present
               /\ nodes'[op.nodeId].isDeleted = nodes[op.nodeId].isDeleted
               /\ nodes'[op.nodeId].label = nodes[op.nodeId].label
          ELSE (findActiveEdge(edges', op.from, op.to) # 0)
                 = (findActiveEdge(edges, op.from, op.to) # 0)]_vars

\* C23: the operation log is append-only: no record is ever removed, an
\* existing record changes only by its status going from applied to
\* rolled_back, and a rolled_back record never becomes applied again.
C23_LogAppendOnly ==
  [][/\ Len(opLog') >= Len(opLog)
     /\ \A i \in 1..Len(opLog) :
          \/ opLog'[i] = opLog[i]
          \/ /\ opLog[i].status = "applied"
             /\ opLog'[i] = [opLog[i] EXCEPT !.status = "rolled_back"]]_vars

\* C24: an operation a session submits for one map changes the nodes, edges,
\* clock, version and log of no other map, whichever map the session joined.
C24_OtherMapsUntouched ==
  [][(steps' = steps + 1 /\ last'.handler \in {"node:add", "node:move", "editOperation"}) =>
       /\ last'.mapId # DEFAULT_MAP_ID =>
            UNCHANGED <<nodes, edges, map, opLog>>
       /\ last'.mapId # "m2" => otherMap' = otherMap]_vars

\* C25: the result of an accepted operation is delivered to every session
\* subscribed to the operation's map except the originator, and to no other
\* session.
C25_DeliveredToSubscribersOnly ==
  [][(/\ steps' = steps + 1
      /\ last'.handler \in {"node:add", "node:move", "editOperation"}
      /\ last'.accepted) =>
       \A o \in Clients :
         (toClient'[o] # toClient[o]) <=> (o # last'.client /\ last'.mapId \in rooms[o])]_vars

\* C26: every submitted operation is either accepted, or its originator is
\* sent an error or rollback message that carries a reason.
C26_OriginatorToldOfFailure ==
  [][(/\ steps' = steps + 1
      /\ last'.handler \in {"node:add", "node:move", "editOperation"}
      /\ ~last'.accepted) =>
       LET c == last'.client IN
       /\ Len(toClient'[c]) = Len(toClient[c]) + 1
       /\ toClient'[c][Len(toClient'[c])].event \in {"error", "rollback"}
       /\ toClient'[c][Len(toClient'[c])].reason # NoReason]_vars

\* C27: scenario A: on a map with nodes 1, 2, 3 and active edges 1->2 and
\* 2->3, a request to add the edge 3->1 is rejected with the reason
\* would_create_cycle and the edge is not stored.
C27_ScenarioA ==
  [][(/\ ActivePairs(edges) = {<<"1", "2">>, <<"2", "3">>}
      /\ script # <<>>
      /\ script' = Tail(script)
      /\ Head(script).from = "3"
      /\ Head(script).to = "1") =>
       /\ ~last'.valid
       /\ last'.reason = "would_create_cycle"
       /\ edges' = edges]_vars

\* C30: on a cycle-free graph and for nodes s and t (possibly the same) with
\* no edge s->t, wouldCreateCycle answers true exactly when the graph with
\* s->t added has a directed cycle.
C30_WouldCreateCycleExact ==
  [][(/\ response' # response
      /\ response'.kind = "checkCycle"
      /\ ~HasDirectedCycle(ActivePairs(edges))
      /\ <<response'.sourceId, response'.targetId>> \notin ActivePairs(edges)) =>
       (response'.wouldCreateCycle <=>
          HasDirectedCycle(ActivePairs(edges)
                           \cup {<<response'.sourceId, response'.targetId>>}))]_vars

\* C28: the health monitor marks the service unhealthy, and triggers the
\* failover simulation, only when the count of consecutive failures reaches
\* unhealthyThreshold; a successful check resets the count to 0.
C28_UnhealthyAtThreshold ==
  [][/\ (health.isHealthy /\ ~health'.isHealthy) =>
          /\ health'.failureCount = unhealthyThreshold
          /\ health'.failoverTriggered
     /\ (~health.failoverTriggered /\ health'.failoverTriggered) =>
          health'.failureCount = unhealthyThreshold
     /\ (health'.logged = <<"Service recovered">> /\ health' # health) =>
          health'.failureCount = 0]_vars

\* C29: once the monitor has marked the service unhealthy, if the database
\* answers again and keeps answering, the monitor eventually reports healthy.
C29_AutoRecovery ==
  []((~health.isHealthy /\ []health.reachable) => <>health.isHealthy)

\* C31: detectCycle(adjacency) without a start node returns null exactly when
\* the graph has no directed cycle; a returned sequence is a real cycle: every
\* consecutive pair is an edge and the last node has an edge back to the first.
C31_DetectCycleExact ==
  response.kind = "cycles" =>
    LET R == AdjPairs(buildAdjacencyList(nodes, edges))
        cycle == response.cycle
    IN  /\ (cycle = NoCycle) <=> ~HasDirectedCycle(R)
        /\ response.hasCycle <=> HasDirectedCycle(R)
        /\ \A i \in 1..(Len(cycle) - 1) : <<cycle[i], cycle[i + 1]>> \in R
        /\ cycle # NoCycle => <<cycle[Len(cycle)], cycle[1]>> \in R

C31_Witness ==
  /\ response.kind = "cycles"
  /\ response.cycle = <<"2", "3">>
  /\ <<"1", "2">> \in AdjPairs(buildAdjacencyList(nodes, edges))

\* C34: findOrphanedNodes ends on every finite graph, cyclic ones included,
\* and returns exactly the non-deleted nodes that no root reaches, the roots
\* being the non-deleted nodes with no incoming active edge.
C34_OrphansExact ==
  response.kind = "orphans" =>
    LET live == {n \in GraphNodes : ActiveNode(nodes, n)}
        roots == {n \in live : \A i \in ActiveEdges(edges) : edges[i].target # n}
        R == AdjPairs(buildAdjacencyList(nodes, edges))
    IN  /\ Range(response.rootIds) = roots
        /\ Range(response.orphans) = live \ ReachSet(R, roots)
        /\ \A i, j \in 1..Len(response.orphans) :
             response.orphans[i] = response.orphans[j] => i = j

C34_Witness ==
  /\ response.kind = "orphans"
  /\ Len(response.orphans) = 2
  /\ Len(response.rootIds) = 1
  /\ HasDirectedCycle(AdjPairs(buildAdjacencyList(nodes, edges)))

\* C35: getConnectedComponents returns a partition of the non-deleted node
\* ids in which two nodes share a component exactly when a path of edges,
\* taken in either direction, joins them.
C35_ComponentsPartition ==
  response.kind = "components" =>
    LET live == {n \in GraphNodes : ActiveNode(nodes, n)}
        R == AdjPairs(buildAdjacencyList(nodes, edges)) \cap (live \X live)
        either == R \cup {<<p[2], p[1]>> : p \in R}
        parts == response.components
    IN  /\ UNION {Range(parts[i]) : i \in 1..Len(parts)} = live
        /\ \A i, j \in 1..Len(parts) : i # j => Range(parts[i]) \cap Range(parts[j]) = {}
        /\ \A i \in 1..Len(parts) : \A n \in Range(parts[i]) :
             Range(parts[i]) = ReachSet(either, {n})

\* C32: for all vector clocks a and b, a missing key reading as 0:
\* compare(a, b) is after exactly when compare(b, a) is before, concurrent
\* exactly when compare(b, a) is concurrent, and equal exactly when every
\* counter of a equals that of b.
C32_CompareAntisymmetric ==
  response.kind = "compare" =>
    LET a == response.clock1
        b == response.clock2
    IN  /\ response.forward \in {"before", "after", "concurrent", "equal"}
        /\ (response.forward = "after") <=> (response.backward = "before")
        /\ (response.forward = "before") <=> (response.backward = "after")
        /\ (response.forward = "concurrent") <=> (response.backward = "concurrent")
        /\ (response.forward = "equal") <=>
             \A u \in Clients : getSequence(a, u) = getSequence(b, u)

C32_Witness ==
  /\ response.kind = "compare"
  /\ response.forward = "after"
  /\ DOMAIN response.clock1 # DOMAIN response.clock2

\* C33: merge(a, b) is the per-key maximum over the union of the keys of a
\* and b; it is commutative and idempotent, leaves both arguments as they
\* were, and its result is never before either argument.
C33_MergeIsPerKeyMax ==
  response.kind = "merge" =>
    LET a == response.clock1
        b == response.clock2
        m == response.merged
    IN  /\ DOMAIN m = DOMAIN a \cup DOMAIN b
        /\ \A u \in DOMAIN m :
             /\ m[u] >= getSequence(a, u)
             /\ m[u] >= getSequence(b, u)
             /\ m[u] \in {getSequence(a, u), getSequence(b, u)}
        /\ response.swapped = m
        /\ response.twice = a
        /\ response.after = <<a, b>>
        /\ compare(m, a) \in {"after", "equal"}
        /\ compare(m, b) \in {"after", "equal"}

C33_Witness ==
  /\ response.kind = "merge"
  /\ compare(response.clock1, response.clock2) = "concurrent"
  /\ DOMAIN response.clock1 # DOMAIN response.clock2
  /\ response.merged \notin {response.clock1, response.clock2}

\* C39: compareVectorClocks(current, incoming) returns -1 exactly when
\* compare(incoming, current) is before, 1 exactly when it is after, and 0
\* exactly when it is concurrent or equal.
C39_CompareFunctionsAgree ==
  response.kind = "compareVectorClocks" =>
    LET ordering == compare(response.incomingVC, response.currentVC) IN
    /\ (response.result = -1) <=> (ordering = "before")
    /\ (response.result = 1) <=> (ordering = "after")
    /\ (response.result = 0) <=> (ordering \in {"concurrent", "equal"})

C39_Witness ==
  /\ response.kind = "compareVectorClocks"
  /\ response.result = -1
  /\ DOMAIN response.currentVC # DOMAIN response.incomingVC

\* C36: in the client store, undo immediately followed by redo restores the
\* node list and the edge list exactly as they were just before the undo,
\* whatever local and remote actions came before.
C36_UndoRedoRestores ==
  [][(response.kind = "undo" /\ response'.kind = "redo") =>
       /\ Store'.nodes = response.nodes
       /\ Store'.edges = response.edges]_vars

\* C38: in the client store, after any interleaving of local actions (connect
\* mode included), remote actions and undo/redo, every edge of the edge list
\* has its source and its target in the node list.
C38_NoDanglingEdge ==
  \A e \in Range(Store.edges) :
    e.source \in idsOf(Store.nodes) /\ e.target \in idsOf(Store.nodes)

HistoryInv(s) ==
  /\ Len(s.history) <= historyLimit
  /\ s.historyIndex \in -1..(Len(s.history) - 1)
  /\ (s.historyIndex = -1) <=> (s.history = <<>>)

\* C37 as stated: the history holds at most 50 snapshots, historyIndex stays
\* within -1 .. length - 1 and is -1 only while the history is empty, and
\* right after any local action that changed the node or edge list redo does
\* nothing.
C37_RedoImpossibleAfterEdit ==
  [][/\ HistoryInv(Store) /\ HistoryInv(Store')
     /\ (response'.kind = "local" /\ <<Store'.nodes, Store'.edges>> # <<Store.nodes, Store.edges>>) =>
          redo(Store') = Store']_vars

\* C37: the history holds at most 50 snapshots, historyIndex stays within
\* -1 .. length - 1 and is -1 only while the history is empty; right after a
\* local action that records a snapshot historyIndex is the last index and
\* redo does nothing, while moveNode records none and leaves the history and
\* historyIndex as they were.
C37_RedoImpossibleAfterSnapshot ==
  [][/\ HistoryInv(Store) /\ HistoryInv(Store')
     /\ (response'.kind = "local" /\ response'.action # "moveNode") =>
          /\ Store'.historyIndex = Len(Store'.history) - 1
          /\ Store'.history[Len(Store'.history)] = [nodes |-> Store'.nodes, edges |-> Store'.edges]
          /\ redo(Store') = Store'
     /\ (response'.kind = "local" /\ response'.action = "moveNode") =>
          /\ Store'.history = Store.history
          /\ Store'.historyIndex = Store.historyIndex]_vars

C37_Witness ==
  /\ response.kind = "local"
  /\ response.action = "updateNode"
  /\ Len(Store.history) = historyLimit
  /\ Store.historyIndex = historyLimit - 1
  /\ Store.history[1].nodes[1].label = "A"

====
